---- MODULE Spec2Model ----
(***************************************************************************)
(* The TOML-subset scanner and parser of black-dwarf (src/src/toml.rs).    *)
(*                                                                         *)
(* A document is a sequence of grapheme clusters.  Every grapheme of the   *)
(* modelled alphabet is one ASCII byte, except the cluster "\r\n", which   *)
(* is two bytes.  A lexeme (a borrowed slice of the document) is the       *)
(* sequence of graphemes of the slice.  The scanner is a record of the     *)
(* fields of `Scanner`; every scanner method is an operator from a scanner *)
(* record to the scanner record it leaves and the value it returns.        *)
(***************************************************************************)
EXTENDS Integers, Sequences, FiniteSets, TLC

VARIABLES
    doc,        \* the document handed to parse and scan (Scanner::source)
    tokens,     \* what Scanner::next returns over doc, call after call, up to Eof
    scanner,    \* parse's Scanner
    top_level,  \* parse's root table
    pc,         \* where parse is: "start", "top", "table_body", "array_body", "done"
                \* (call by call: "lex", "begin", "descend", "done")
    current,    \* the path from top_level to the node `current` refers to
    table,      \* parse_multiline_array_element's local `table`
    kv,         \* parse_kv's locals `path` and `value` of its last call
    header,     \* the header function that ran last, and its local `path`
    result,     \* what parse returned
    scanned,    \* what scan returned
    stack,      \* the calls of the parse functions under way, where they are
                \* followed one by one: the outermost first
    this,       \* BlackDwarf::try_from's local `this`
    project,    \* Project::target, in insertion order
    args,       \* run's args.targets
    target_names, \* what targets_in_order_from's iterator has yet to yield
    built,      \* targets_in_order_from's local `built`
    targets     \* targets_in_order_from's local `targets`

vars ==
    <<doc, tokens, scanner, top_level, pc, current, table, kv, header, result, scanned,
      stack, this, project, args, target_names, built, targets>>

\* what parse and scan have no hand in: the schema projection and the build order
outside == <<this, project, args, target_names, built, targets>>

\* they stay as they are while parse and scan run
Idle ==
    /\ this = <<>>
    /\ project = <<>>
    /\ args = <<>>
    /\ target_names = <<>>
    /\ built = {}
    /\ targets = <<>>

(***************************************************************************)
(* Bounds of the model.                                                    *)
(***************************************************************************)
MaxLines == 3

(***************************************************************************)
(* Option<T>: None is the empty sequence, Some(x) the sequence <<x>>.      *)
(***************************************************************************)
None == <<>>
Some(x) == <<x>>

(***************************************************************************)
(* `let x = v; F(x)`: Bind(v, F) is LET x == v IN F(x), written so that v  *)
(* is evaluated once, before F, as a `let` statement is.                   *)
(***************************************************************************)
Bind(v, F(_)) == CHOOSE r \in {F(x) : x \in {v}} : TRUE

(***************************************************************************)
(* Graphemes and bytes.                                                    *)
(***************************************************************************)
CRLF == "\r\n"

ByteLen(g) == IF g = CRLF THEN 2 ELSE 1

RECURSIVE ToBytes(_)
ToBytes(s) ==
    IF s = <<>> THEN <<>>
    ELSE (IF Head(s) = CRLF THEN <<"\r", "\n">> ELSE <<Head(s)>>) \o ToBytes(Tail(s))

\* s.len(): the sum of ByteLen over the graphemes of s
NumBytes(s) == Len(s) + Cardinality({j \in 1..Len(s) : ByteLen(s[j]) = 2})

\* source.len()
SourceLen == NumBytes(doc)

\* the number of graphemes that make up the first b bytes of the document:
\* the least n in lo..hi whose first n graphemes have b bytes or more, or hi
RECURSIVE GraphemesBefore(_, _, _)
GraphemesBefore(b, lo, hi) ==
    IF lo >= hi THEN lo
    ELSE IF NumBytes(SubSeq(doc, 1, (lo + hi) \div 2)) >= b
    THEN GraphemesBefore(b, lo, (lo + hi) \div 2)
    ELSE GraphemesBefore(b, ((lo + hi) \div 2) + 1, hi)

\* &self.source[from..to]
Slice(from, to) ==
    SubSeq(doc, GraphemesBefore(from, 0, Len(doc)) + 1, GraphemesBefore(to, 0, Len(doc)))

DigitChars == <<"0", "1", "2", "3", "4", "5", "6", "7", "8", "9">>

is_digit(s) == \E n \in 1..10 : DigitChars[n] = s

\* the graphemes all of whose bytes are ASCII whitespace
Whitespace == {" ", "\t", "\n", "\f", "\r", CRLF}

is_whitespace(s) == s = "" \/ s \in Whitespace

NonIdentifier == Whitespace \cup {"", "#", "[", "]", "{", "}", ",", ".", "=", "\"", "'"}

is_non_identifier(s) == s \in NonIdentifier

Digits == {"0", "1", "2", "3", "4", "5", "6", "7", "8", "9"}

DecOrUnderscore == Digits \cup {"_"}

dec_or_underscore(s) == s \in DecOrUnderscore

HexOrUnderscore ==
    {"0", "1", "2", "3", "4", "5", "6", "7", "8", "9",
     "a", "A", "b", "B", "c", "C", "d", "D", "e", "E", "f", "F", "_"}

hex_or_underscore(c) == c \in HexOrUnderscore

OctOrUnderscore == {"0", "1", "2", "3", "4", "5", "6", "7", "_"}

oct_or_underscore(s) == s \in OctOrUnderscore

BinOrUnderscore == {"0", "1", "_"}

bin_or_underscore(s) == s \in BinOrUnderscore

hex_to_i64(digit) ==
    CASE digit = "0" -> 0
      [] digit = "1" -> 1
      [] digit = "2" -> 2
      [] digit = "3" -> 3
      [] digit = "4" -> 4
      [] digit = "5" -> 5
      [] digit = "6" -> 6
      [] digit = "7" -> 7
      [] digit = "8" -> 8
      [] digit = "9" -> 9
      [] digit \in {"a", "A"} -> 10
      [] digit \in {"b", "B"} -> 11
      [] digit \in {"c", "C"} -> 12
      [] digit \in {"d", "D"} -> 13
      [] digit \in {"e", "E"} -> 14
      [] digit \in {"f", "F"} -> 16

(***************************************************************************)
(* str::parse for the integer types and for f64.                           *)
(***************************************************************************)
DigitVal(g) == (CHOOSE n \in 1..10 : DigitChars[n] = g) - 1

AllDigits(s) == \A i \in 1..Len(s) : is_digit(s[i])

\* the number written by the first n digits of s
RECURSIVE DigitsValue(_, _)
DigitsValue(s, n) == IF n = 0 THEN 0 ELSE DigitsValue(s, n - 1) * 10 + DigitVal(s[n])

ParseDigits(s) == DigitsValue(s, Len(s))

RECURSIVE StripZeros(_)
StripZeros(s) == IF s # <<>> /\ Head(s) = "0" THEN StripZeros(Tail(s)) ELSE s

\* the decimal digits of 2^63
I64Limit == <<9, 2, 2, 3, 3, 7, 2, 0, 3, 6, 8, 5, 4, 7, 7, 5, 8, 0, 8>>

\* digit strings of equal length, compared as numbers: s < I64Limit
RECURSIVE BelowLimit(_, _)
BelowLimit(s, i) ==
    IF i > Len(s) THEN FALSE
    ELSE IF DigitVal(s[i]) # I64Limit[i] THEN DigitVal(s[i]) < I64Limit[i]
    ELSE BelowLimit(s, i + 1)

\* whether the magnitude written by the digits fits an i64 of that sign
FitsI64(digits, neg) ==
    Bind(StripZeros(digits), LAMBDA d :
        \/ Len(d) < Len(I64Limit)
        \/ /\ Len(d) = Len(I64Limit)
           /\ (BelowLimit(d, 1) \/ (neg /\ \A i \in 1..Len(d) : DigitVal(d[i]) = I64Limit[i])))

\* <i64 as FromStr>::from_str
ParseI64(s) ==
    LET hasSign == Len(s) > 0 /\ s[1] \in {"+", "-"}
        neg     == hasSign /\ s[1] = "-"
        digits  == IF hasSign THEN Tail(s) ELSE s
    IN  IF Len(digits) = 0 \/ ~AllDigits(digits) \/ ~FitsI64(digits, neg)
        THEN [ok |-> FALSE, v |-> 0]
        ELSE [ok |-> TRUE, v |-> IF neg THEN 0 - ParseDigits(digits) ELSE ParseDigits(digits)]

\* from_str of u8, u16 and of i16 on a short slice
ParseSmall(s, signedType, max) ==
    LET hasSign == Len(s) > 0 /\ (s[1] = "+" \/ (signedType /\ s[1] = "-"))
        neg     == hasSign /\ s[1] = "-"
        digits  == IF hasSign THEN Tail(s) ELSE s
    IN  IF Len(digits) = 0 \/ Len(digits) > 9 \/ ~AllDigits(digits)
        THEN [ok |-> FALSE, v |-> 0]
        ELSE IF ParseDigits(digits) > max
        THEN [ok |-> FALSE, v |-> 0]
        ELSE [ok |-> TRUE, v |-> IF neg THEN 0 - ParseDigits(digits) ELSE ParseDigits(digits)]

RECURSIVE DigitPrefixLen(_, _)
DigitPrefixLen(s, i) ==
    IF i < Len(s) /\ is_digit(s[i + 1]) THEN DigitPrefixLen(s, i + 1) ELSE i

RECURSIVE Pow10(_)
Pow10(n) == IF n = 0 THEN 1 ELSE 10 * Pow10(n - 1)

\* An f64 is held as (-1)^neg * m * 10^e with m not divisible by 10 (m = 0
\* has e = 0), or as an infinity or a NaN; rounding to binary is left out.
RECURSIVE NormFloat(_, _, _)
NormFloat(neg, m, e) ==
    IF m = 0 THEN [kind |-> "finite", neg |-> neg, m |-> 0, e |-> 0]
    ELSE IF m % 10 = 0 THEN NormFloat(neg, m \div 10, e + 1)
    ELSE [kind |-> "finite", neg |-> neg, m |-> m, e |-> e]

INFINITY     == [kind |-> "inf", neg |-> FALSE, m |-> 0, e |-> 0]
NEG_INFINITY == [kind |-> "inf", neg |-> TRUE, m |-> 0, e |-> 0]
NAN          == [kind |-> "nan", neg |-> FALSE, m |-> 0, e |-> 0]
NEG_NAN      == [kind |-> "nan", neg |-> TRUE, m |-> 0, e |-> 0]

\* the exponent part `e [sign] digits` of an f64, where ex is what follows
\* the `e`, and the f64 of mantissa digits m with nFrac of them after the point
FloatWithExponent(neg, m, nFrac, hasExp, ex) ==
    LET exSign == ex # <<>> /\ ex[1] \in {"+", "-"}
        exDig  == IF exSign THEN Tail(ex) ELSE ex
        exVal  == IF ~hasExp THEN 0
                  ELSE IF exSign /\ ex[1] = "-" THEN 0 - ParseDigits(exDig)
                  ELSE ParseDigits(exDig)
    IN  IF hasExp /\ (exDig = <<>> \/ ~AllDigits(exDig))
        THEN [ok |-> FALSE, v |-> NAN]
        ELSE [ok |-> TRUE, v |-> NormFloat(neg, ParseDigits(m), exVal - nFrac)]

\* <f64 as FromStr>::from_str on [sign] digits [. digits] [e [sign] digits]
ParseF64(s) ==
    LET hasSign == Len(s) > 0 /\ s[1] \in {"+", "-"}
        neg     == hasSign /\ s[1] = "-"
    IN  Bind(IF hasSign THEN Tail(s) ELSE s, LAMBDA r :
        Bind(DigitPrefixLen(r, 0), LAMBDA nInt :
        Bind(SubSeq(r, nInt + 1, Len(r)), LAMBDA r1 :
        Bind(r1 # <<>> /\ r1[1] = ".", LAMBDA hasDot :
        Bind(IF hasDot THEN Tail(r1) ELSE r1, LAMBDA afterD :
        Bind(IF hasDot THEN DigitPrefixLen(afterD, 0) ELSE 0, LAMBDA nFrac :
        Bind(SubSeq(afterD, nFrac + 1, Len(afterD)), LAMBDA r2 :
            IF nInt + nFrac = 0 \/ (r2 # <<>> /\ r2[1] \notin {"e", "E"})
            THEN [ok |-> FALSE, v |-> NAN]
            ELSE FloatWithExponent(neg, SubSeq(r, 1, nInt) \o SubSeq(afterD, 1, nFrac),
                                   nFrac, r2 # <<>>,
                                   IF r2 # <<>> THEN Tail(r2) ELSE <<>>))))))))

RemoveUnderscores(s) == SelectSeq(s, LAMBDA g : g # "_")

(***************************************************************************)
(* Pos, Token and TokenType.  A TokenType is a record with its variant in  *)
(* `tag` and the variant's payload in fields of its own.                   *)
(***************************************************************************)
Pos(line, col, byte) == [line |-> line, col |-> col, byte |-> byte]

T(tag) == [tag |-> tag]
Eof == T("Eof")
Ident == T("Ident")
String == T("String")
LeftBracket == T("LeftBracket")
DoubleLeftBracket == T("DoubleLeftBracket")
RightBracket == T("RightBracket")
DoubleRightBracket == T("DoubleRightBracket")
LeftBrace == T("LeftBrace")
RightBrace == T("RightBrace")
Equals == T("Equals")
Dot == T("Dot")
Comma == T("Comma")
Integer(v) == [tag |-> "Integer", value |-> v]
Float(v) == [tag |-> "Float", value |-> v]
Error(e) == [tag |-> "Error", error |-> e]
DateType(d) == [tag |-> "Date", date |-> d]
TimeType(t, o) == [tag |-> "Time", time |-> t, offset |-> o]
DatetimeType(dt) == [tag |-> "Datetime", datetime |-> dt]

OffsetZ == [kind |-> "Z", minutes |-> 0]
OffsetMinutes(m) == [kind |-> "Minutes", minutes |-> m]

is_time(type_) == type_.tag = "Time"

is_bracket(type_) == type_.tag \in {"LeftBracket", "DoubleLeftBracket"}

may_be_key(type_) ==
    type_.tag \notin {"LeftBracket", "RightBracket", "DoubleLeftBracket",
                      "DoubleRightBracket", "LeftBrace", "RightBrace",
                      "Equals", "Dot", "Comma", "Eof"}

(***************************************************************************)
(* Scanner: the grapheme cursor.                                           *)
(***************************************************************************)
\* Scanner::new; `i` is how many graphemes the iterator `graphemes` has yielded
NewScanner ==
    [i |-> 0, current |-> None, line |-> 1, column |-> 0,
     start_byte |-> 0, len_bytes |-> 0]

peek_grapheme(sc) == IF sc.i < Len(doc) THEN doc[sc.i + 1] ELSE ""

\* next_grapheme without the count of the bytes of the grapheme
NextGraphemeUncounted(sc) ==
    IF sc.i >= Len(doc) THEN sc
    ELSE LET g == doc[sc.i + 1]
         IN  [sc EXCEPT !.i = @ + 1,
                        !.column = IF g = "\n" THEN 0 ELSE @ + 1,
                        !.line = IF g = "\n" THEN @ + 1 ELSE @]

\* the scanner after next_grapheme; the grapheme it returns is peek_grapheme before
next_grapheme(sc) ==
    IF sc.i >= Len(doc) THEN sc
    ELSE LET g == doc[sc.i + 1]
         IN  [sc EXCEPT !.i = @ + 1,
                        !.column = IF g = "\n" THEN 0 ELSE @ + 1,
                        !.line = IF g = "\n" THEN @ + 1 ELSE @,
                        !.len_bytes = @ + ByteLen(g)]

is_at_end(sc) == peek_grapheme(sc) = ""

lexeme(sc) ==
    IF sc.start_byte >= SourceLen \/ sc.start_byte + sc.len_bytes >= SourceLen
    THEN <<>>
    ELSE Slice(sc.start_byte, sc.start_byte + sc.len_bytes)

\* while <peek is in S> { next_grapheme() }
RECURSIVE ConsumeWhileIn(_, _)
ConsumeWhileIn(sc, S) ==
    IF peek_grapheme(sc) \in S
    THEN Bind(next_grapheme(sc), LAMBDA s1 : ConsumeWhileIn(s1, S))
    ELSE sc

\* while <peek is not in S> { next_grapheme() }; "" is in S
RECURSIVE ConsumeUntilIn(_, _)
ConsumeUntilIn(sc, S) ==
    IF peek_grapheme(sc) \notin S
    THEN Bind(next_grapheme(sc), LAMBDA s1 : ConsumeUntilIn(s1, S))
    ELSE sc

\* at most n times: if peek is q, next_grapheme()
RECURSIVE ConsumeQuotes(_, _, _)
ConsumeQuotes(sc, q, n) ==
    IF n > 0 /\ peek_grapheme(sc) = q
    THEN Bind(next_grapheme(sc), LAMBDA s1 : ConsumeQuotes(s1, q, n - 1))
    ELSE sc

\* the macro next!() of date and time, n times: next_grapheme(), and give up
\* when that reached the end
RECURSIVE NextBang(_, _)
NextBang(sc, n) ==
    IF n = 0 THEN [sc |-> sc, ok |-> TRUE]
    ELSE Bind(next_grapheme(sc), LAMBDA s1 :
             IF is_at_end(s1) THEN [sc |-> s1, ok |-> FALSE] ELSE NextBang(s1, n - 1))

slurp_whitespace(sc) == ConsumeWhileIn(sc, Whitespace)

Typed(sc, type_) == [sc |-> sc, type_ |-> type_]

ident(sc) == Typed(ConsumeUntilIn(sc, NonIdentifier), Ident)

nan(sc, negative) ==
    Bind(next_grapheme(sc), LAMBDA s1 :
    Bind(next_grapheme(s1), LAMBDA s2 :
    Bind(next_grapheme(s2), LAMBDA s3 :
        LET a == peek_grapheme(s1)
            n == peek_grapheme(s2)
        IN  IF is_at_end(s1) THEN Typed(s1, Ident)
            ELSE IF is_at_end(s2) THEN Typed(s2, Ident)
            ELSE IF is_at_end(s3) THEN Typed(s3, Ident)
            ELSE IF ~negative /\ a = "a" /\ n = "n" THEN Typed(s3, Float(NAN))
            ELSE IF negative /\ a = "a" /\ n = "n" THEN Typed(s3, Float(NEG_NAN))
            ELSE Typed(s3, Error("InvalidNumber")))))

inf(sc, negative) ==
    Bind(next_grapheme(sc), LAMBDA s1 :
    Bind(next_grapheme(s1), LAMBDA s2 :
    Bind(next_grapheme(s2), LAMBDA s3 :
        LET n == peek_grapheme(s1)
            f == peek_grapheme(s2)
        IN  IF is_at_end(s1) THEN Typed(s1, Ident)
            ELSE IF is_at_end(s2) THEN Typed(s2, Ident)
            ELSE IF is_at_end(s3) THEN Typed(s3, Ident)
            ELSE IF ~negative /\ n = "n" /\ f = "f" THEN Typed(s3, Float(INFINITY))
            ELSE IF negative /\ n = "f" /\ f = "f" THEN Typed(s3, Float(NEG_INFINITY))
            ELSE Typed(s3, Error("InvalidNumber")))))

(***************************************************************************)
(* Scanner: numbers in base 16, 8 and 2 (impl_alt_base!).                  *)
(***************************************************************************)
RECURSIVE Pow(_, _)
Pow(b, n) == IF n = 0 THEN 1 ELSE b * Pow(b, n - 1)

\* the least i with base^i above i64::MAX, where checked_pow gives None
PowOverflowsAt(base) == IF base = 16 THEN 16 ELSE IF base = 8 THEN 21 ELSE 63

\* the closure `parse`: the digits weighted from the last to the first
\* of the first n digits, the last weighted base^i
RECURSIVE AltBaseValue(_, _, _, _)
AltBaseValue(digits, n, base, i) ==
    IF n = 0 THEN 0
    ELSE Pow(base, i) * hex_to_i64(digits[n]) + AltBaseValue(digits, n - 1, base, i + 1)

AltBase(sc, negative, base, Allowed) ==
    Bind(next_grapheme(sc), LAMBDA s1 :
    Bind(ConsumeWhileIn(s1, Allowed), LAMBDA s2 :
    Bind(RemoveUnderscores(SubSeq(doc, s1.i + 1, s2.i)), LAMBDA digits :
        IF Len(digits) > PowOverflowsAt(base) THEN Typed(s2, Error("InvalidNumber"))
        ELSE Bind(AltBaseValue(digits, Len(digits), base, 0), LAMBDA value :
                 Typed(s2, Integer(IF negative THEN 0 - value ELSE value))))))

hex(sc, negative) == AltBase(sc, negative, 16, HexOrUnderscore)

octal(sc, negative) == AltBase(sc, negative, 8, OctOrUnderscore)

binary(sc, negative) == AltBase(sc, negative, 2, BinOrUnderscore)

(***************************************************************************)
(* Scanner: times and dates.                                               *)
(***************************************************************************)
\* &bytes[from..=to], the offsets counted from 0
ByteRange(bytes, from, to) == SubSeq(bytes, from + 1, to + 1)

\* (frac_secs * 1_000_000_000.0) as u32 for frac_secs = "0" + <"." digits>
Nanoseconds(fracLexeme) ==
    LET digits == Tail(fracLexeme)
        nine   == SubSeq(digits \o <<"0", "0", "0", "0", "0", "0", "0", "0", "0">>, 1, 9)
    IN  ParseDigits(nine)

InvalidDate(sc) == Typed(sc, Error("InvalidDate"))

InvalidTime(sc) == Typed(sc, Error("InvalidTime"))

OffsetResult(sc, ok, error, offset) ==
    [sc |-> sc, ok |-> ok, error |-> error, offset |-> offset]

\* the match on peek_grapheme() that reads the offset; nlen is nanos_len
TimeOffset(sc, start, nlen) ==
    IF peek_grapheme(sc) \in {"+", "-"} THEN
        Bind(next_grapheme(sc), LAMBDA s1 :
        Bind(NextBang(s1, 3), LAMBDA n3 :
        Bind(NextBang(n3.sc, 2), LAMBDA n5 :
            LET sign  == IF peek_grapheme(sc) = "+" THEN 1 ELSE 0 - 1
                hourB == ByteRange(ToBytes(lexeme(n3.sc)), start + nlen + 9, start + nlen + 10)
                minB  == ByteRange(ToBytes(lexeme(n5.sc)), start + nlen + 12, start + nlen + 13)
                hourN == ParseSmall(hourB, TRUE, 32767)
                minN  == ParseSmall(minB, TRUE, 32767)
            IN  IF is_at_end(s1) THEN OffsetResult(s1, FALSE, "InvalidDate", None)
                ELSE IF ~n3.ok THEN OffsetResult(n3.sc, FALSE, "InvalidTime", None)
                ELSE IF start + nlen + 10 >= NumBytes(lexeme(n3.sc))
                     THEN OffsetResult(n3.sc, FALSE, "InvalidDate", None)
                ELSE IF ~n5.ok THEN OffsetResult(n5.sc, FALSE, "InvalidTime", None)
                ELSE IF start + nlen + 13 >= NumBytes(lexeme(n5.sc))
                     THEN OffsetResult(n5.sc, FALSE, "InvalidDate", None)
                ELSE IF ~hourN.ok \/ hourN.v > 24 \/ ~minN.ok \/ minN.v > 60
                     THEN OffsetResult(n5.sc, FALSE, "InvalidDate", None)
                ELSE OffsetResult(n5.sc, TRUE, "",
                                  Some(OffsetMinutes(sign * (hourN.v * 60 + minN.v)))))))
    ELSE IF peek_grapheme(sc) \in {"Z", "z"}
         THEN OffsetResult(next_grapheme(sc), TRUE, "", Some(OffsetZ))
    ELSE OffsetResult(sc, TRUE, "", None)

\* time, from the fractional seconds on; n6 is the scanner after the seconds
TimeFraction(n6, start, hourB, minB, secB) ==
    LET hasFrac == peek_grapheme(n6) = "."
    IN  Bind(IF hasFrac THEN ConsumeWhileIn(next_grapheme(n6), Digits) ELSE n6, LAMBDA s7 :
        Bind(IF hasFrac /\ start + 8 < NumBytes(lexeme(s7))
             THEN SubSeq(ToBytes(lexeme(s7)), start + 9, NumBytes(lexeme(s7)))
             ELSE <<>>, LAMBDA fracB :
        Bind(TimeOffset(s7, start, IF hasFrac THEN Len(fracB) ELSE 0), LAMBDA off :
            LET hourN == ParseSmall(hourB, FALSE, 255)
                minN  == ParseSmall(minB, FALSE, 255)
                secN  == ParseSmall(secB, FALSE, 255)
            IN  IF hasFrac /\ start + 8 >= NumBytes(lexeme(s7)) THEN InvalidDate(s7)
                ELSE IF ~off.ok THEN Typed(off.sc, Error(off.error))
                ELSE IF ~hourN.ok \/ ~minN.ok \/ ~secN.ok THEN InvalidDate(off.sc)
                ELSE Typed(off.sc,
                           TimeType([hour |-> hourN.v, minute |-> minN.v,
                                     second |-> secN.v,
                                     nanosecond |-> IF hasFrac THEN Nanoseconds(fracB) ELSE 0],
                                    off.offset)))))

time(sc, start) ==
    IF start + 1 >= NumBytes(lexeme(sc)) THEN InvalidDate(sc)
    ELSE IF is_at_end(sc) THEN InvalidDate(sc)
    ELSE Bind(NextBang(sc, 3), LAMBDA n3 :
         IF ~n3.ok THEN InvalidTime(n3.sc)
         ELSE IF start + 4 >= NumBytes(lexeme(n3.sc)) THEN InvalidDate(n3.sc)
         ELSE Bind(NextBang(n3.sc, 3), LAMBDA n6 :
              IF ~n6.ok THEN InvalidTime(n6.sc)
              ELSE IF start + 7 >= NumBytes(lexeme(n6.sc)) THEN InvalidDate(n6.sc)
              ELSE TimeFraction(n6.sc, start,
                                ByteRange(ToBytes(lexeme(sc)), start, start + 1),
                                ByteRange(ToBytes(lexeme(n3.sc)), start + 3, start + 4),
                                ByteRange(ToBytes(lexeme(n6.sc)), start + 6, start + 7))))

\* date, from the `T` on; n6 is the scanner after the day
DateTime(n6, yearB, monB, dayB) ==
    LET hasT  == peek_grapheme(n6) \in {"T", "t"}
        yearN == ParseSmall(yearB, FALSE, 65535)
        monN  == ParseSmall(monB, FALSE, 255)
        dayN  == ParseSmall(dayB, FALSE, 255)
        d     == [year |-> yearN.v, month |-> monN.v, day |-> dayN.v]
    IN  Bind(IF hasT THEN NextBang(n6, 1) ELSE [sc |-> n6, ok |-> TRUE], LAMBDA nT :
        IF ~nT.ok THEN InvalidDate(nT.sc)
        ELSE Bind(IF hasT THEN ConsumeWhileIn(nT.sc, Digits) ELSE n6, LAMBDA s8 :
             Bind(IF hasT THEN time(s8, 11) ELSE Typed(n6, Eof), LAMBDA tm :
                 IF ~yearN.ok \/ ~monN.ok \/ ~dayN.ok THEN InvalidDate(tm.sc)
                 ELSE IF hasT /\ is_time(tm.type_)
                 THEN Typed(tm.sc, DatetimeType([date |-> Some(d),
                                                 time |-> Some(tm.type_.time),
                                                 offset |-> tm.type_.offset]))
                 ELSE Typed(tm.sc, DateType(d)))))

date(sc) ==
    Bind(NextBang(sc, 3), LAMBDA n3 :
    IF ~n3.ok THEN InvalidDate(n3.sc)
    ELSE Bind(NextBang(n3.sc, 3), LAMBDA n6 :
         IF ~n6.ok THEN InvalidDate(n6.sc)
         ELSE DateTime(n6.sc, lexeme(sc),
                       ByteRange(ToBytes(lexeme(n3.sc)), 5, 6),
                       ByteRange(ToBytes(lexeme(n6.sc)), 8, 9))))

(***************************************************************************)
(* Scanner: decimal numbers, strings, and the token dispatch.              *)
(***************************************************************************)
\* number, once the sign is read: s1 is the scanner after it
Unsigned(s1, signed) ==
    LET negative == IF signed = None THEN FALSE ELSE signed[1]
        c        == peek_grapheme(s1)
    IN  IF c = "n" THEN nan(s1, negative)
        ELSE IF c = "i" THEN inf(s1, negative)
        ELSE IF c = "x" THEN hex(s1, negative)
        ELSE IF c = "o" THEN octal(s1, negative)
        ELSE IF c = "b" THEN binary(s1, negative)
        ELSE Bind(ConsumeWhileIn(s1, DecOrUnderscore), LAMBDA s2 :
             IF peek_grapheme(s2) = "-" /\ NumBytes(lexeme(s2)) = 4 /\ signed = None
             THEN date(s2)
             ELSE IF peek_grapheme(s2) = ":" /\ NumBytes(lexeme(s2)) = 2 /\ signed = None
             THEN time(s2, 0)
             ELSE Bind(IF peek_grapheme(s2) = "."
                       THEN ConsumeWhileIn(next_grapheme(s2), DecOrUnderscore)
                       ELSE s2, LAMBDA s3 :
                  Bind(IF peek_grapheme(s3) \in {"e", "E"}
                       THEN ConsumeWhileIn(next_grapheme(s3), DecOrUnderscore)
                       ELSE s3, LAMBDA s4 :
                  Bind(RemoveUnderscores(lexeme(s4)), LAMBDA to_parse :
                  Bind(ParseI64(to_parse), LAMBDA int :
                      IF int.ok THEN Typed(s4, Integer(int.v))
                      ELSE Bind(ParseF64(to_parse), LAMBDA float :
                               IF float.ok THEN Typed(s4, Float(float.v))
                               ELSE Typed(s4, Error("InvalidNumber"))))))))

number(sc) ==
    IF peek_grapheme(sc) \in {"+", "-"}
    THEN Bind(next_grapheme(sc), LAMBDA s1 : Unsigned(s1, Some(peek_grapheme(sc) = "-")))
    ELSE Unsigned(sc, None)

\* the loop of scan_string over the body of the string
RECURSIVE StringBody(_, _)
StringBody(sc, quote) ==
    IF peek_grapheme(sc) # quote /\ ~is_at_end(sc)
    THEN Bind(IF peek_grapheme(sc) = "\\" /\ quote = "\"" THEN next_grapheme(sc) ELSE sc,
              LAMBDA s1 :
         Bind(IF ~is_at_end(s1) THEN next_grapheme(s1) ELSE s1, LAMBDA s2 :
             StringBody(s2, quote)))
    ELSE sc

scan_string(sc, quote) ==
    Bind(ConsumeQuotes(sc, quote, 2), LAMBDA s1 :
    Bind(StringBody(s1, quote), LAMBDA s2 :
        IF is_at_end(s2) THEN Typed(s2, Error("UnterminatedString"))
        ELSE Bind(next_grapheme(s2), LAMBDA s3 :
                 Typed(ConsumeQuotes(s3, quote, 2), String))))

\* next_type, once the first grapheme c of the token is read: s3 is the
\* scanner after it.  The arm `c => if is_whitespace(c) { panic!(..) }`
\* cannot be taken: slurp_whitespace has consumed every grapheme
\* is_whitespace accepts.
RECURSIVE next_type(_)
Dispatch(c, s3) ==
    CASE c = "#" -> Bind(ConsumeUntilIn(s3, {CRLF, "\n", ""}), LAMBDA s4 : next_type(s4))
      [] c = "{" -> Typed(s3, LeftBrace)
      [] c = "}" -> Typed(s3, RightBrace)
      [] c = "," -> Typed(s3, Comma)
      [] c = "." -> Typed(s3, Dot)
      [] c = "=" -> Typed(s3, Equals)
      [] c = "[" -> IF peek_grapheme(s3) = "["
                    THEN Typed(next_grapheme(s3), DoubleLeftBracket)
                    ELSE Typed(s3, LeftBracket)
      [] c = "]" -> IF peek_grapheme(s3) = "]"
                    THEN Typed(next_grapheme(s3), DoubleRightBracket)
                    ELSE Typed(s3, RightBracket)
      [] is_digit(c) -> number(s3)
      [] c = "+" -> number(s3)
      [] c = "-" -> IF is_digit(peek_grapheme(s3)) THEN number(s3)
                    ELSE IF peek_grapheme(s3) = "n" THEN nan(s3, TRUE)
                    ELSE IF peek_grapheme(s3) = "i" THEN inf(s3, TRUE)
                    ELSE ident(s3)
      [] c \in {"\"", "'"} -> scan_string(s3, c)
      [] OTHER -> ident(s3)

next_type(sc) ==
    Bind(slurp_whitespace(sc), LAMBDA s1 :
        IF peek_grapheme(s1) = "" THEN Typed(s1, Eof)
        ELSE Bind([s1 EXCEPT !.start_byte = @ + s1.len_bytes, !.len_bytes = 0], LAMBDA s2 :
             Bind(next_grapheme(s2), LAMBDA s3 : Dispatch(peek_grapheme(s2), s3))))

Token(lex, type_, pos) == [lexeme |-> lex, type_ |-> type_, pos |-> pos]

\* Scanner::next: the token, and the scanner it leaves
next(sc) ==
    Bind(next_type(sc), LAMBDA r :
        [sc  |-> r.sc,
         tok |-> Token(lexeme(r.sc), r.type_,
                       Pos(r.sc.line, r.sc.column, r.sc.start_byte))])

\* The calls of next on a scanner over doc, each from where the one before
\* left the scanner: what each returned and the scanner it left.  After
\* Eof every call returns the same again.
RECURSIVE Stream(_, _)
Stream(sc, acc) ==
    Bind(next(sc), LAMBDA r :
        IF r.tok.type_ = Eof THEN Append(acc, r) ELSE Stream(r.sc, Append(acc, r)))

TokenStream == Stream(NewScanner, <<>>)

\* next(sc) for a scanner a sequence of calls of next has led to, read off
\* `tokens`: the first call that ends beyond sc, or else the one giving Eof
NextOf(sc) ==
    LET beyond == {k \in 1..Len(tokens) : tokens[k].sc.i > sc.i}
    IN  IF beyond = {} THEN tokens[Len(tokens)]
        ELSE tokens[CHOOSE k \in beyond : \A j \in beyond : k <= j]

next_token(sc) ==
    IF sc.current # None
    THEN [sc |-> [sc EXCEPT !.current = None], tok |-> sc.current[1]]
    ELSE NextOf(sc)

peek_token(sc) ==
    IF sc.current # None
    THEN [sc |-> sc, tok |-> sc.current[1]]
    ELSE Bind(NextOf(sc), LAMBDA r :
             [sc |-> [r.sc EXCEPT !.current = Some(r.tok)], tok |-> r.tok])

\* peek_token() when only the token is wanted
Peeked(sc) == peek_token(sc).tok

\* the loop of scan: the tokens before Eof, or the first error
RECURSIVE ScanLoop(_, _)
ScanLoop(sc, toks) ==
    Bind(next_token(sc), LAMBDA r :
        IF r.tok.type_.tag = "Error"
        THEN [kind |-> "Err", error |-> r.tok.type_.error, tokens |-> <<>>]
        ELSE IF r.tok.type_ = Eof
        THEN [kind |-> "Ok", error |-> "", tokens |-> toks]
        ELSE ScanLoop(r.sc, Append(toks, r.tok)))

scan == ScanLoop(NewScanner, <<>>)

(***************************************************************************)
(* Value.  A Table keeps its entries in insertion order (IndexMap): a      *)
(* sequence of [key, value].                                               *)
(***************************************************************************)
new_table(pos) == [type |-> "table", key_values |-> <<>>, pos |-> pos]

new_array(pos) == [type |-> "array", values |-> <<>>, pos |-> pos]

ArrayValue(values, pos) == [type |-> "array", values |-> values, pos |-> pos]

StringValue(value, pos) == [type |-> "string", value |-> value, pos |-> pos]

IntegerValue(value, pos) == [type |-> "integer", value |-> value, pos |-> pos]

FloatValue(value, pos) == [type |-> "float", value |-> value, pos |-> pos]

BooleanValue(value, pos) == [type |-> "boolean", value |-> value, pos |-> pos]

DatetimeValue(datetime, pos) == [type |-> "datetime", datetime |-> datetime, pos |-> pos]

type_str(v) == v.type

is_table(v) == v.type = "table"

is_array(v) == v.type = "array"

is_just_date(v) ==
    v.type = "datetime" /\ v.datetime.date # None /\ v.datetime.time = None

contains_key(v, key) ==
    is_table(v) /\ \E j \in 1..Len(v.key_values) : v.key_values[j].key = key

KeyIndex(v, key) == CHOOSE j \in 1..Len(v.key_values) : v.key_values[j].key = key

\* get and get_mut, where the key is there
get(v, key) == v.key_values[KeyIndex(v, key)].value

\* Value::insert on a Table (IndexMap::insert: a key that is there keeps its
\* place and takes the new value); callers look at is_table first, where the
\* source panics
insert(v, key, value) ==
    IF contains_key(v, key)
    THEN [v EXCEPT !.key_values[KeyIndex(v, key)].value = value]
    ELSE [v EXCEPT !.key_values = Append(@, [key |-> key, value |-> value])]

\* Value::append that puts the value before the elements that are there
Prepend(v, value) == [v EXCEPT !.values = <<value>> \o @]

\* Value::append on an Array
append(v, value) == [v EXCEPT !.values = Append(@, value)]

(***************************************************************************)
(* A place in the tree: the steps from the root, each a key of a Table or  *)
(* an index of an Array.  It stands for a `&mut Value` into the tree.      *)
(***************************************************************************)
KeyStep(key) == [kind |-> "key", key |-> key, idx |-> 0]

IdxStep(idx) == [kind |-> "idx", key |-> <<>>, idx |-> idx]

RECURSIVE GetAt(_, _)
GetAt(v, path) ==
    IF path = <<>> THEN v
    ELSE IF Head(path).kind = "key" THEN GetAt(get(v, Head(path).key), Tail(path))
    ELSE GetAt(v.values[Head(path).idx], Tail(path))

RECURSIVE SetAt(_, _, _)
SetAt(v, path, new) ==
    IF path = <<>> THEN new
    ELSE IF Head(path).kind = "key"
    THEN insert(v, Head(path).key, SetAt(get(v, Head(path).key), Tail(path), new))
    ELSE [v EXCEPT !.values[Head(path).idx] = SetAt(@, Tail(path), new)]

(***************************************************************************)
(* BlackDwarfError, and what the parse functions return: `st` is "ok",     *)
(* "err" (the function returned Err(err)) or "panic" (it panicked),        *)
(* `sc` the scanner it leaves.                                             *)
(***************************************************************************)
RecursionLimit == 64

IncorrectType(type_, expected, where_) ==
    [error |-> "IncorrectType", type_ |-> type_, expected |-> expected,
     why |-> <<>>, where_ |-> where_]

ParseError(why, where_) ==
    [error |-> "ParseError", type_ |-> "", expected |-> "", why |-> why, where_ |-> where_]

NoError == [error |-> "", type_ |-> "", expected |-> "", why |-> <<>>, where_ |-> Pos(0, 0, 0)]

Taken(st, r, err) == [st |-> st, sc |-> r.sc, tok |-> r.tok, err |-> err]

consume_key(sc) ==
    Bind(next_token(sc), LAMBDA r :
        IF may_be_key(r.tok.type_) THEN Taken("ok", r, NoError)
        ELSE Taken("err", r,
                   ParseError(<<"expected non-symbol for key name, got", r.tok.lexeme>>,
                              r.tok.pos)))

consume(sc, type_) ==
    Bind(next_token(sc), LAMBDA r :
        IF r.tok.type_ = type_ THEN Taken("ok", r, NoError)
        ELSE Taken("err", r,
                   ParseError(<<"expected", type_, "got", r.tok.lexeme>>, r.tok.pos)))

Names(st, sc, names, err) == [st |-> st, sc |-> sc, names |-> names, err |-> err]

\* the loop of parse_path
RECURSIVE ParsePathLoop(_, _)
ParsePathLoop(sc, names) ==
    Bind(peek_token(sc), LAMBDA p :
        IF (may_be_key(p.tok.type_) \/ p.tok.type_ = Dot) /\ ~is_at_end(p.sc)
        THEN Bind(consume(p.sc, Dot), LAMBDA d :
             IF d.st # "ok" THEN Names("err", d.sc, names, d.err)
             ELSE Bind(consume_key(d.sc), LAMBDA k :
                  IF k.st # "ok" THEN Names("err", k.sc, names, k.err)
                  ELSE ParsePathLoop(k.sc, Append(names, k.tok))))
        ELSE Names("ok", p.sc, names, NoError))

parse_path(sc) ==
    Bind(consume_key(sc), LAMBDA k :
        IF k.st # "ok" THEN Names("err", k.sc, <<>>, k.err)
        ELSE ParsePathLoop(k.sc, <<k.tok>>))

(***************************************************************************)
(* parse_kv, parse_value, parse_array, parse_table.                        *)
(***************************************************************************)
Walked(st, cur, err) == [st |-> st, cur |-> cur, err |-> err]

\* the walk of parse_kv where a fragment before the last that is bound to a
\* value that is not a Table is bound anew, to an empty Table, and the walk
\* goes on
RECURSIVE InsertPathOver(_, _, _, _, _)
InsertPathOver(cur, path, i, value, equalsPos) ==
    LET key == path[i].lexeme
    IN  IF ~is_table(cur)
        THEN Walked("err", cur, IncorrectType(type_str(cur), "table", equalsPos))
        ELSE IF i # Len(path)
        THEN Bind(IF contains_key(cur, key) /\ is_table(get(cur, key)) THEN cur
                  ELSE insert(cur, key, new_table(path[i].pos)), LAMBDA made :
             Bind(get(made, key), LAMBDA child :
             Bind(InsertPathOver(child, path, i + 1, value, equalsPos), LAMBDA below :
                 Walked(below.st, insert(made, key, below.cur), below.err))))
        ELSE Walked("ok", insert(cur, key, value), NoError)

\* the walk of parse_kv over `path` from `cur`: the fragments before the
\* last find or create a Table, the last is bound to `value`.  `cur` comes
\* back as the walk left it, also when it returns Err.
RECURSIVE InsertPath(_, _, _, _, _)
InsertPath(cur, path, i, value, equalsPos) ==
    LET key == path[i].lexeme
    IN  IF ~is_table(cur)
        THEN Walked("err", cur, IncorrectType(type_str(cur), "table", equalsPos))
        ELSE IF i # Len(path)
        THEN Bind(IF contains_key(cur, key) THEN cur
                  ELSE insert(cur, key, new_table(path[i].pos)), LAMBDA made :
             Bind(get(made, key), LAMBDA child :
             Bind(InsertPath(child, path, i + 1, value, equalsPos), LAMBDA below :
                 Walked(below.st, insert(made, key, below.cur), below.err))))
        ELSE Walked("ok", insert(cur, key, value), NoError)

\* `if scanner.peek_token().type_.is_time() { if let <a date alone> = value {..} }`
Stitch(sc, value) ==
    Bind(peek_token(sc), LAMBDA p :
        IF is_time(p.tok.type_) /\ is_just_date(value)
        THEN Bind(next_token(p.sc), LAMBDA t :
                 [sc |-> t.sc,
                  value |-> DatetimeValue([date |-> value.datetime.date,
                                           time |-> Some(t.tok.type_.time),
                                           offset |-> t.tok.type_.offset], value.pos)])
        ELSE [sc |-> p.sc, value |-> value])

Failed(st, sc, err) == [st |-> st, sc |-> sc, err |-> err]

\* ensure!(depth, scanner), where depth is above the limit
LimitExceeded(sc) ==
    Bind(peek_token(sc), LAMBDA p :
        Failed("err", p.sc, ParseError(<<"recursion limit exceeded">>, p.tok.pos)))

NoValue == [value |-> None]

Good(sc, v) == [st |-> "ok", sc |-> sc, err |-> NoError, value |-> v]

RECURSIVE parse_kv(_, _, _)
RECURSIVE parse_value(_, _)
RECURSIVE parse_array(_, _)
RECURSIVE ArrayLoop(_, _, _)
RECURSIVE parse_table(_, _)
RECURSIVE TableLoop(_, _, _)

\* what is returned carries `cur` (the Value `current` refers to, as the call
\* left it) and the locals `path` and `value`
parse_kv(sc, cur, depth) ==
    LET no == [cur |-> cur, path |-> <<>>, value |-> None]
    IN  IF depth > RecursionLimit THEN LimitExceeded(sc) @@ no
        ELSE Bind(parse_path(sc), LAMBDA pp :
             IF pp.st # "ok" THEN Failed(pp.st, pp.sc, pp.err) @@ no
             ELSE Bind(consume(pp.sc, Equals), LAMBDA eq :
                  IF eq.st # "ok" THEN Failed(eq.st, eq.sc, eq.err) @@ no
                  ELSE Bind(parse_value(eq.sc, depth + 1), LAMBDA pv :
                       IF pv.st # "ok" THEN Failed(pv.st, pv.sc, pv.err) @@ no
                       ELSE Bind(Stitch(pv.sc, pv.value), LAMBDA sv :
                            Bind(InsertPath(cur, pp.names, 1, sv.value, eq.tok.pos),
                                 LAMBDA w :
                                [st |-> w.st, sc |-> sv.sc, err |-> w.err, cur |-> w.cur,
                                 path |-> pp.names, value |-> Some(sv.value)])))))

\* the match of parse_value on the token `tok`, which left the scanner sc
ValueOf(tok, sc, d1) ==
    LET tag == tok.type_.tag
    IN  CASE tag = "LeftBracket" -> parse_array(sc, d1)
          [] tag = "LeftBrace" -> parse_table(sc, d1)
          [] tag = "String" ->
               \* &next.lexeme[1..next.lexeme.len() - 1]
               IF NumBytes(tok.lexeme) < 2 THEN Failed("panic", sc, NoError) @@ NoValue
               ELSE Good(sc, StringValue(SubSeq(tok.lexeme, 2, Len(tok.lexeme) - 1), tok.pos))
          [] tag = "Integer" -> Good(sc, IntegerValue(tok.type_.value, tok.pos))
          [] tag = "Float" -> Good(sc, FloatValue(tok.type_.value, tok.pos))
          [] tag = "Boolean" -> Good(sc, BooleanValue(tok.type_.value, tok.pos))
          [] tag = "Time" ->
               Good(sc, DatetimeValue([date |-> None, time |-> Some(tok.type_.time),
                                       offset |-> tok.type_.offset], tok.pos))
          [] tag = "Date" ->
               Good(sc, DatetimeValue([date |-> Some(tok.type_.date), time |-> None,
                                       offset |-> None], tok.pos))
          [] tag = "Datetime" -> Good(sc, DatetimeValue(tok.type_.datetime, tok.pos))
          [] tag = "Ident" /\ tok.lexeme = <<"i", "n", "f">> ->
               Good(sc, FloatValue(INFINITY, tok.pos))
          [] tag = "Ident" /\ tok.lexeme = <<"n", "a", "n">> ->
               Good(sc, FloatValue(NAN, tok.pos))
          [] tag = "Ident" /\ tok.lexeme = <<"t", "r", "u", "e">> ->
               Good(sc, BooleanValue(TRUE, tok.pos))
          [] tag = "Ident" /\ tok.lexeme = <<"f", "a", "l", "s", "e">> ->
               Good(sc, BooleanValue(FALSE, tok.pos))
          [] OTHER ->
               Failed("err", sc, ParseError(<<"not yet supported:", tok>>, tok.pos)) @@ NoValue

parse_value(sc, depth) ==
    IF depth > RecursionLimit THEN LimitExceeded(sc) @@ NoValue
    ELSE Bind(next_token(sc), LAMBDA r : ValueOf(r.tok, r.sc, depth + 1))

parse_array(sc, depth) ==
    IF depth > RecursionLimit THEN LimitExceeded(sc) @@ NoValue
    ELSE Bind(peek_token(sc), LAMBDA p :
         IF p.tok.type_ = RightBracket
         THEN Bind(consume(p.sc, RightBracket), LAMBDA rb :
                  Good(rb.sc, new_array(p.tok.pos)))
         ELSE Bind(parse_value(p.sc, depth + 1), LAMBDA first :
              IF first.st # "ok" THEN first
              ELSE ArrayLoop(first.sc, depth + 1, ArrayValue(<<first.value>>, p.tok.pos))))

\* the closing bracket of parse_array
ArrayEnd(sc, arr) ==
    Bind(consume(sc, RightBracket), LAMBDA rb :
        IF rb.st # "ok" THEN Failed("err", rb.sc, rb.err) @@ NoValue
        ELSE Good(rb.sc, arr))

\* the loop of parse_array after the first value
ArrayLoop(sc, d1, arr) ==
    Bind(peek_token(sc), LAMBDA p :
        IF p.tok.type_ = Comma /\ ~is_at_end(p.sc)
        THEN Bind(consume(p.sc, Comma), LAMBDA comma :
             Bind(peek_token(comma.sc), LAMBDA p2 :
                 IF p2.tok.type_ = RightBracket THEN ArrayEnd(p2.sc, arr)
                 ELSE Bind(parse_value(p2.sc, d1), LAMBDA elem :
                      IF elem.st # "ok" THEN elem
                      ELSE ArrayLoop(elem.sc, d1, append(arr, elem.value)))))
        ELSE ArrayEnd(p.sc, arr))

parse_table(sc, depth) ==
    IF depth > RecursionLimit THEN LimitExceeded(sc) @@ NoValue
    ELSE Bind(peek_token(sc), LAMBDA p :
         IF p.tok.type_ = RightBrace
         THEN Bind(consume(p.sc, RightBrace), LAMBDA rb :
                  Good(rb.sc, new_table(p.tok.pos)))
         ELSE Bind(parse_kv(p.sc, new_table(p.tok.pos), depth + 1), LAMBDA first :
              IF first.st # "ok" THEN Failed(first.st, first.sc, first.err) @@ NoValue
              ELSE TableLoop(first.sc, depth + 1, first.cur)))

\* the closing brace of parse_table
TableEnd(sc, key_values) ==
    Bind(consume(sc, RightBrace), LAMBDA rb :
        IF rb.st # "ok" THEN Failed("err", rb.sc, rb.err) @@ NoValue
        ELSE Good(rb.sc, key_values))

\* the loop of parse_table after the first pair
TableLoop(sc, d1, key_values) ==
    Bind(peek_token(sc), LAMBDA p :
        IF p.tok.type_ = Comma /\ ~is_at_end(p.sc)
        THEN Bind(consume(p.sc, Comma), LAMBDA comma :
             Bind(peek_token(comma.sc), LAMBDA p2 :
                 IF p2.tok.type_ = RightBrace THEN TableEnd(p2.sc, key_values)
                 ELSE Bind(parse_kv(p2.sc, key_values, d1), LAMBDA pair :
                      IF pair.st # "ok" THEN Failed(pair.st, pair.sc, pair.err) @@ NoValue
                      ELSE TableLoop(pair.sc, d1, pair.cur))))
        ELSE TableEnd(p.sc, key_values))

(***************************************************************************)
(* The headers [path] and [[path]].                                        *)
(***************************************************************************)
Node(st, node, path, err) == [st |-> st, node |-> node, path |-> path, err |-> err]

\* One fragment of a header's walk, in the Table `at`: the key is found or
\* created (newValue) and entered, and `rest` walks on from there.  `node`
\* is what `current` referred to before the fragment: `at`, or the Array
\* whose last element `at` is.
Enter(node, at, key, newValue, rest(_)) ==
    LET inLast == is_array(node)
        steps  == (IF inLast THEN <<IdxStep(Len(node.values))>> ELSE <<>>) \o <<KeyStep(key)>>
    IN  Bind(IF contains_key(at, key) THEN at ELSE insert(at, key, newValue), LAMBDA made :
        Bind(get(made, key), LAMBDA child :
        Bind(rest(child), LAMBDA below :
        Bind(insert(made, key, below.node), LAMBDA after :
            Node(below.st,
                 IF inLast THEN [node EXCEPT !.values[Len(node.values)] = after] ELSE after,
                 steps \o below.path, below.err)))))

\* TableWalk that makes a new Table at every fragment, whether the key is
\* there or not
RECURSIVE TableWalkAnew(_, _, _)
TableWalkAnew(node, frags, i) ==
    IF i > Len(frags) THEN Node("ok", node, <<>>, NoError)
    ELSE IF ~is_table(node) THEN Node("panic", node, <<>>, NoError)
    ELSE Enter(node, insert(node, frags[i].lexeme, new_table(frags[i].pos)),
               frags[i].lexeme, new_table(frags[i].pos),
               LAMBDA child : TableWalkAnew(child, frags, i + 1))

\* The walk of parse_multiline_table over the header's path from `node`.
\* Each fragment: an Array is entered at its last element; then the key is
\* found or created and entered.  `node` comes back as the walk left it,
\* `path` is where `current` ends, from `node`.
RECURSIVE TableWalk(_, _, _)
TableWalk(node, frags, i) ==
    IF i > Len(frags) THEN Node("ok", node, <<>>, NoError)
    ELSE IF is_array(node) /\ node.values = <<>>
    THEN Node("err", node, <<>>, IncorrectType(type_str(node), "array", frags[i].pos))
    ELSE IF ~is_array(node) /\ ~is_table(node)
    THEN Node("err", node, <<>>, IncorrectType(type_str(node), "table", frags[i].pos))
    ELSE Bind(IF is_array(node) THEN node.values[Len(node.values)] ELSE node, LAMBDA at :
         IF ~is_table(at)
         THEN \* contains_key is false, and insert panics: "called create on non-table"
              Node("panic", node, <<>>, NoError)
         ELSE Enter(node, at, frags[i].lexeme, new_table(frags[i].pos),
                    LAMBDA child : TableWalk(child, frags, i + 1)))

\* the same walk in parse_multiline_array_element: an empty Array on the way
\* panics (expect), and the last fragment, where missing, is made an Array
RECURSIVE ArrayWalk(_, _, _)
ArrayWalk(node, frags, i) ==
    IF i > Len(frags) THEN Node("ok", node, <<>>, NoError)
    ELSE IF is_array(node) /\ node.values = <<>>
    THEN Node("panic", node, <<>>, NoError)
    ELSE IF ~is_array(node) /\ ~is_table(node)
    THEN Node("err", node, <<>>, IncorrectType(type_str(node), "table", frags[i].pos))
    ELSE Bind(IF is_array(node) THEN node.values[Len(node.values)] ELSE node, LAMBDA at :
         IF ~is_table(at) THEN Node("panic", node, <<>>, NoError)
         ELSE Enter(node, at, frags[i].lexeme,
                    IF i = Len(frags) THEN new_array(frags[i].pos)
                    ELSE new_table(frags[i].pos),
                    LAMBDA child : ArrayWalk(child, frags, i + 1)))

NoNode(root) == [node |-> root, path |-> <<>>, names |-> <<>>]

\* parse_multiline_table up to its loop: the header and the walk
TableHeader(sc, root, depth) ==
    IF depth > RecursionLimit THEN LimitExceeded(sc) @@ NoNode(root)
    ELSE Bind(consume(sc, LeftBracket), LAMBDA lb :
         IF lb.st # "ok" THEN Failed(lb.st, lb.sc, lb.err) @@ NoNode(root)
         ELSE Bind(parse_path(lb.sc), LAMBDA pp :
              IF pp.st # "ok" THEN Failed(pp.st, pp.sc, pp.err) @@ NoNode(root)
              ELSE Bind(consume(pp.sc, RightBracket), LAMBDA rb :
                   IF rb.st # "ok" THEN Failed(rb.st, rb.sc, rb.err) @@ NoNode(root)
                   ELSE Bind(TableWalk(root, pp.names, 1), LAMBDA w :
                            [st |-> w.st, sc |-> rb.sc, err |-> w.err,
                             node |-> w.node, path |-> w.path, names |-> pp.names]))))

\* parse_multiline_array_element after the header: the walk, the check that
\* it ends at an Array, and the new local `table`
ArrayElement(sc, root, names, dlbPos) ==
    Bind(ArrayWalk(root, names, 1), LAMBDA w :
        LET walked == [sc |-> sc, node |-> w.node, path |-> w.path, names |-> names,
                       table |-> None]
        IN  IF w.st # "ok" THEN [st |-> w.st, err |-> w.err] @@ walked
            ELSE Bind(GetAt(w.node, w.path), LAMBDA last :
                 IF ~is_array(last)
                 THEN [st |-> "err",
                       err |-> IncorrectType(type_str(last), "array", dlbPos)] @@ walked
                 ELSE Bind(peek_token(sc), LAMBDA p :
                          [st |-> "ok", sc |-> p.sc, err |-> NoError, node |-> w.node,
                           path |-> w.path, names |-> names,
                           table |-> Some(new_table(p.tok.pos))])))

\* parse_multiline_array_element up to its loop
ArrayHeader(sc, root, depth) ==
    LET no == NoNode(root) @@ [table |-> None]
    IN  IF depth > RecursionLimit THEN LimitExceeded(sc) @@ no
        ELSE Bind(consume(sc, DoubleLeftBracket), LAMBDA dlb :
             IF dlb.st # "ok" THEN Failed(dlb.st, dlb.sc, dlb.err) @@ no
             ELSE Bind(parse_path(dlb.sc), LAMBDA pp :
                  IF pp.st # "ok" THEN Failed(pp.st, pp.sc, pp.err) @@ no
                  ELSE Bind(consume(pp.sc, DoubleRightBracket), LAMBDA drb :
                       IF drb.st # "ok" THEN Failed(drb.st, drb.sc, drb.err) @@ no
                       ELSE ArrayElement(drb.sc, root, pp.names, dlb.tok.pos))))

\* `!scanner.peek_token().type_.is_bracket() && !scanner.is_at_end()`
BodyGoesOn(sc) == ~is_bracket(Peeked(sc).type_) /\ ~is_at_end(peek_token(sc).sc)

(***************************************************************************)
(* The documents: every concatenation of at most MaxLines of these lines.  *)
(***************************************************************************)
Lines ==
    << <<"a", "=", "1", "\n">>,                         \* a=1
       <<"a", ".", "b", "=", "2", "\n">>,               \* a.b=2
       <<"[", "a", "]", "\n">>,                         \* [a]
       <<"[", "[", "a", "]", "]", "\n">>,               \* [[a]]
       <<"[", "a", ".", "b", "]", "\n">>,               \* [a.b]
       <<"a", "=", "[", "1", "]", "\n">>,               \* a=[1]
       <<"1", "e", "=", "1", "\n">>,                    \* 1e=1
       <<"s", "=", "\"", "o", "\n">>,                   \* s="o
       <<"a", "=", "\"", "x", "\"">>,                   \* a="x" and no line end
       <<"=", "\n">>,                                  \* =
       <<"a", ".", "b", ".", "c", "=", "3", "\n">> >>   \* a.b.c=3

RECURSIVE DocsOfLines(_)
DocsOfLines(n) ==
    IF n = 0 THEN {<<>>}
    ELSE {d \o Lines[k] : d \in DocsOfLines(n - 1), k \in 1..Len(Lines)}

Docs == UNION {DocsOfLines(n) : n \in 0..MaxLines}

(***************************************************************************)
(* More documents, one for each form of value and of line the properties   *)
(* below are about.                                                        *)
(***************************************************************************)
Samples ==
    << <<"a", "=", "0", "x", "f", "f", "\n">>,                          \* a=0xff
       <<"a", "=", "0", "x", "1", "_", "A", "\n">>,                     \* a=0x1_A
       <<"a", "=", "0", "o", "1", "7", "\n">>,                          \* a=0o17
       <<"a", "=", "0", "b", "1", "0", "1", "\n">>,                     \* a=0b101
       <<"a", "=", "[", "1", ",", "]", "\n",
         "b", "=", "[", "1", "]", "\n">>,                               \* a=[1,] b=[1]
       <<"a", "=", "{", "b", "=", "1", ",", "}", "\n",
         "b", "=", "{", "b", "=", "1", "}", "\n">>,                     \* a={b=1,} b={b=1}
       <<"a", "=", "1">>,                                               \* a=1 and no line end
       <<"a", "=", "1", CRLF, "b", "=", "2", "\n">>,                    \* a=1 CRLF b=2
       <<"a", "=", "[", "[", "1", ",", "2", "]", ",",
         "[", "3", "]", "]", "\n">>,                                    \* a=[[1,2],[3]]
       <<"a", "=", "[", " ", "[", "1", ",", "2", "]", ",", " ",
         "[", "3", "]", " ", "]", "\n">>,                               \* a=[ [1,2], [3] ]
       <<"a", "=", "[", " ", "[", "1", "]", ",", "]", "\n",
         "b", "=", "[", " ", "[", "1", "]", "]", "\n">>,                \* a=[ [1],] b=[ [1]]
       <<"a", "=", "\"", "x", "\"", "\n">>,                             \* a="x"
       <<"a", "=", "'", "x", "'", "\n">>,                               \* a='x'
       <<"a", "=", "\"", "\"", "\"", "x", "\"", "\"", "\"", "\n">>,     \* a="""x"""
       <<"a", "=", "\"", "\"", "\n", "b", "=", "1", "\n">>,             \* a="" b=1
       <<"a", "=", "'", "'", " ", "b", "\n">>,                          \* a='' b
       <<"a", "=", "-", "1", "\n", "b", "=", "1", "\n">>,   \* a=-1 b=1
       <<"a", "=", "-", "1", ".", "5", "\n", "b", "=", "1", ".",
         "5", "\n">>,   \* a=-1.5 b=1.5
       <<"a", "=", "-", "i", "n", "f", "\n", "b", "=", "i", "n",
         "f", "\n">>,   \* a=-inf b=inf
       <<"a", "=", "-", "n", "a", "n", "\n", "b", "=", "n", "a",
         "n", "\n">>,   \* a=-nan b=nan
       <<"a", "=", "-", "x", "\n">>,   \* a=-x
       <<"a", "=", "2", "0", "2", "4", "-", "1", "3", "-", "0",
         "1", "\n">>,   \* a=2024-13-01
       <<"a", "=", "2", "0", "2", "3", "-", "0", "2", "-", "2",
         "9", "\n">>,   \* a=2023-02-29
       <<"a", "=", "2", "0", "2", "4", "-", "0", "2", "-", "2",
         "9", "\n">>,   \* a=2024-02-29
       <<"a", "=", "1", "2", ":", "3", "0", ":", "0", "0", "+",
         "2", "4", ":", "3", "0", "\n">>,   \* a=12:30:00+24:30
       <<"a", "=", "1", "2", ":", "3", "0", ":", "0", "0", "-",
         "0", "5", ":", "3", "0", "\n">>,   \* a=12:30:00-05:30
       <<"a", "=", "2", "0", "2", "4", "-", "0", "1", "-", "0",
         "1", "T", "1", "2", "\n">>,   \* a=2024-01-01T12
       <<"a", "=", "2", "0", "2", "4", "-", "0", "1", "-", "0",
         "1", "T", "1", "2", ":", "3", "0", ":", "0", "0", "Z",
         "\n">>,   \* a=2024-01-01T12:30:00Z
       <<"a", "=", "2", "0", "2", "4", "-", "0", "1", "-", "0",
         "1", " ", "1", "2", ":", "3", "0", ":", "0", "0", "\n">>,   \* a=2024-01-01 12:30:00
       <<"a", "=", "2", "0", "2", "4", "-", "0", "1", "-", "0",
         "1", " ", "1", "2", ":", "3", "0", ":", "0", "0", "Z",
         "\n">>,   \* a=2024-01-01 12:30:00Z
       <<"a", "=", "[", "2", "0", "2", "4", "-", "0", "1", "-",
         "0", "1", " ", "1", "2", ":", "3", "0", ":", "0", "0",
         "]", "\n">>,   \* a=[2024-01-01 12:30:00]
       <<"a", "=", "1", " ", "1", "2", ":", "3", "0", ":", "0",
         "0", "\n">>,   \* a=1 12:30:00
       <<"a", "=", "2", "0", "2", "4", "-", "0", "1", "-", "0",
         "1", "T", "1", "2", ":", "3", "0", ":", "0", "0", "Z",
         " ", "1", "3", ":", "0", "0", ":", "0", "0", "\n">>,   \* a=2024-01-01T12:30:00Z 13:00:00
       <<"a", "=", "1", "2", ":", "0", "0", ":", "0", "0", " ",
         "1", "3", ":", "0", "0", ":", "0", "0", "\n">> >>   \* a=12:00:00 13:00:00

SampleDocs == {Samples[k] : k \in 1..Len(Samples)}

(***************************************************************************)
(* parse, one action for each turn of its loop and of the loops of the two *)
(* header functions; then scan on the same document.                       *)
(***************************************************************************)
NoResult == [kind |-> "None", err |-> NoError]

OkResult == [kind |-> "Ok", err |-> NoError]

\* what parse returns when a function it called returned r, not "ok"
Outcome(r) ==
    IF r.st = "panic" THEN [kind |-> "Panic", err |-> NoError]
    ELSE [kind |-> "Err", err |-> r.err]

\* parse(doc) has been called and has run nothing yet
Init ==
    /\ doc \in Docs \cup SampleDocs
    /\ tokens = <<>>
    /\ scanner = NewScanner
    /\ top_level = None
    /\ pc = "start"
    /\ current = <<>>
    /\ table = None
    /\ kv = [path |-> <<>>, value |-> None]
    /\ header = [kind |-> "none", path |-> <<>>]
    /\ result = NoResult
    /\ scanned = NoResult
    /\ stack = <<>>
    /\ Idle

\* let mut scanner = Scanner::new(doc);
\* let mut top_level = Value::new_table(scanner.peek_token().pos);
ParseBegins ==
    /\ pc = "start"
    /\ pc' = "top"
    /\ UNCHANGED <<doc, outside, stack, current, table, kv, result, scanned, header>>
    /\ tokens' = TokenStream
    /\ scanner' = (peek_token(NewScanner).sc)'
    /\ top_level' = (new_table(Peeked(NewScanner).pos))'

\* parse's loop ends: Ok(top_level)
ParseReturns ==
    /\ pc = "top"
    /\ Peeked(scanner).type_ = Eof
    /\ pc' = "done"
    /\ result' = OkResult
    /\ scanner' = peek_token(scanner).sc
    /\ UNCHANGED <<doc, outside, stack, tokens, top_level, current, table, kv, scanned, header>>

\* TopKeyValue with parse_kv working on a copy of the scanner
TopKeyValueOnCopy ==
    /\ pc = "top"
    /\ Peeked(scanner).type_ # Eof
    /\ may_be_key(Peeked(scanner).type_)
    /\ \E r \in {parse_kv(peek_token(scanner).sc, top_level, 0)} :
           /\ top_level' = r.cur
           /\ kv' = [path |-> r.path, value |-> r.value]
           /\ pc' = IF r.st = "ok" THEN "top" ELSE "done"
           /\ result' = IF r.st = "ok" THEN result ELSE Outcome(r)
    /\ UNCHANGED <<doc, outside, stack, tokens, scanner, current, table, scanned, header>>

\* parse_kv(&mut scanner, &mut top_level, 0)?
TopKeyValue ==
    /\ pc = "top"
    /\ Peeked(scanner).type_ # Eof
    /\ may_be_key(Peeked(scanner).type_)
    /\ \E r \in {parse_kv(peek_token(scanner).sc, top_level, 0)} :
           /\ scanner' = r.sc
           /\ top_level' = r.cur
           /\ kv' = [path |-> r.path, value |-> r.value]
           /\ pc' = IF r.st = "ok" THEN "top" ELSE "done"
           /\ result' = IF r.st = "ok" THEN result ELSE Outcome(r)
    /\ UNCHANGED <<doc, outside, stack, tokens, current, table, scanned, header>>

\* parse_multiline_table(&mut scanner, &mut top_level, 0)? up to its loop
TableHeaderStep ==
    /\ pc = "top"
    /\ Peeked(scanner).type_ = LeftBracket
    /\ \E r \in {TableHeader(peek_token(scanner).sc, top_level, 0)} :
           /\ scanner' = r.sc
           /\ top_level' = r.node
           /\ current' = IF r.st = "ok" THEN r.path ELSE current
           /\ header' = [kind |-> "table", path |-> r.names]
           /\ pc' = IF r.st = "ok" THEN "table_body" ELSE "done"
           /\ result' = IF r.st = "ok" THEN result ELSE Outcome(r)
    /\ UNCHANGED <<doc, outside, stack, tokens, table, kv, scanned>>

\* TableBodyKeyValue without the current-table rule: the assignment is parsed
\* into the root, whatever table the header named
TableBodyKeyValueInRoot ==
    /\ pc = "table_body"
    /\ BodyGoesOn(scanner)
    /\ \E r \in {parse_kv(peek_token(scanner).sc, top_level, 1)} :
           /\ scanner' = r.sc
           /\ top_level' = r.cur
           /\ kv' = [path |-> r.path, value |-> r.value]
           /\ pc' = IF r.st = "ok" THEN "table_body" ELSE "done"
           /\ result' = IF r.st = "ok" THEN result ELSE Outcome(r)
    /\ UNCHANGED <<doc, outside, stack, tokens, current, table, scanned, header>>

\* a turn of parse_multiline_table's loop: parse_kv(scanner, current, depth)?
TableBodyKeyValue ==
    /\ pc = "table_body"
    /\ BodyGoesOn(scanner)
    /\ \E r \in {parse_kv(peek_token(scanner).sc, GetAt(top_level, current), 1)} :
           /\ scanner' = r.sc
           /\ top_level' = SetAt(top_level, current, r.cur)
           /\ kv' = [path |-> r.path, value |-> r.value]
           /\ pc' = IF r.st = "ok" THEN "table_body" ELSE "done"
           /\ result' = IF r.st = "ok" THEN result ELSE Outcome(r)
    /\ UNCHANGED <<doc, outside, stack, tokens, current, table, scanned, header>>

\* parse_multiline_table's loop ends: Ok(()), back in parse's loop
TableBodyEnd ==
    /\ pc = "table_body"
    /\ ~BodyGoesOn(scanner)
    /\ pc' = "top"
    /\ current' = <<>>
    /\ scanner' = peek_token(scanner).sc
    /\ UNCHANGED <<doc, outside, stack, tokens, top_level, table, kv, result, scanned, header>>

\* parse_multiline_array_element(&mut scanner, &mut top_level, 0)? up to its loop
ArrayHeaderStep ==
    /\ pc = "top"
    /\ Peeked(scanner).type_ = DoubleLeftBracket
    /\ \E r \in {ArrayHeader(peek_token(scanner).sc, top_level, 0)} :
           /\ scanner' = r.sc
           /\ top_level' = r.node
           /\ current' = IF r.st = "ok" THEN r.path ELSE current
           /\ table' = r.table
           /\ header' = [kind |-> "array", path |-> r.names]
           /\ pc' = IF r.st = "ok" THEN "array_body" ELSE "done"
           /\ result' = IF r.st = "ok" THEN result ELSE Outcome(r)
    /\ UNCHANGED <<doc, outside, stack, tokens, kv, scanned>>

\* a turn of parse_multiline_array_element's loop: parse_kv(scanner, &mut table, depth)?
ArrayBodyKeyValue ==
    /\ pc = "array_body"
    /\ BodyGoesOn(scanner)
    /\ \E r \in {parse_kv(peek_token(scanner).sc, table[1], 1)} :
           /\ scanner' = r.sc
           /\ table' = Some(r.cur)
           /\ kv' = [path |-> r.path, value |-> r.value]
           /\ pc' = IF r.st = "ok" THEN "array_body" ELSE "done"
           /\ result' = IF r.st = "ok" THEN result ELSE Outcome(r)
    /\ UNCHANGED <<doc, outside, stack, tokens, top_level, current, scanned, header>>

\* parse_multiline_array_element's loop ends: current.append(table); Ok(())
ArrayBodyEnd ==
    /\ pc = "array_body"
    /\ ~BodyGoesOn(scanner)
    /\ pc' = "top"
    /\ top_level' = SetAt(top_level, current, append(GetAt(top_level, current), table[1]))
    /\ current' = <<>>
    /\ table' = None
    /\ scanner' = peek_token(scanner).sc
    /\ UNCHANGED <<doc, outside, stack, tokens, kv, result, scanned, header>>

\* the last arm of parse's loop: neither a key nor a header
Unexpected ==
    /\ pc = "top"
    /\ Peeked(scanner).type_ # Eof
    /\ ~may_be_key(Peeked(scanner).type_)
    /\ Peeked(scanner).type_ \notin {LeftBracket, DoubleLeftBracket}
    /\ pc' = "done"
    /\ result' = [kind |-> "Err",
                  err |-> ParseError(<<"expected key or table header, got",
                                       Peeked(scanner).lexeme>>, Peeked(scanner).pos)]
    /\ scanner' = peek_token(scanner).sc
    /\ UNCHANGED <<doc, outside, stack, tokens, top_level, current, table, kv, scanned, header>>

\* scan(doc), once parse has returned
Scan ==
    /\ pc = "done"
    /\ scanned.kind = "None"
    /\ scanned' = scan
    /\ UNCHANGED <<doc, outside, stack, tokens, scanner, top_level, pc, current, table, kv, result, header>>

Next ==
    \/ ParseBegins
    \/ ParseReturns
    \/ TopKeyValue
    \/ TableHeaderStep
    \/ TableBodyKeyValue
    \/ TableBodyEnd
    \/ ArrayHeaderStep
    \/ ArrayBodyKeyValue
    \/ ArrayBodyEnd
    \/ Unexpected
    \/ Scan

Spec == Init /\ [][Next]_vars

(***************************************************************************)
(* Reading the tree and the token stream, for the properties below.        *)
(***************************************************************************)
\* the steps a dotted path of key tokens names, through Tables only
Keys(path) == [j \in 1..Len(path) |-> KeyStep(path[j].lexeme)]

\* every step of `steps` is there in v
RECURSIVE HasPath(_, _)
HasPath(v, steps) ==
    IF steps = <<>> THEN TRUE
    ELSE IF Head(steps).kind = "key"
    THEN contains_key(v, Head(steps).key) /\ HasPath(get(v, Head(steps).key), Tail(steps))
    ELSE /\ is_array(v)
         /\ Head(steps).idx \in 1..Len(v.values)
         /\ HasPath(v.values[Head(steps).idx], Tail(steps))

\* the table a key-value assignment is parsed into, at this point of parse
Target == IF pc = "array_body" THEN table[1] ELSE GetAt(top_level, current)

\* a key-value assignment has been parsed and inserted, and parse goes on
KeyValueInserted ==
    /\ TopKeyValue \/ TableBodyKeyValue \/ ArrayBodyKeyValue
    /\ pc' # "done"

\* v and w are the same value, their places in the document left aside; of
\* two Tables or two Arrays, only that both are one
SameContent(v, w) ==
    /\ v.type = w.type
    /\ (is_table(v) \/ is_array(v) \/ [v EXCEPT !.pos = w.pos] = w)

\* the tokens of the stream that are Error tokens
ErrorTokens == {k \in 1..Len(tokens) : tokens[k].tok.type_.tag = "Error"}

\* parse's scanner has returned token k of the stream
Handed(k) == tokens[k].sc.i <= scanner.i

(***************************************************************************)
(* C1: for every document, parse returns Ok(root) with root a Table, or    *)
(* returns an Err; it never panics.                                        *)
(***************************************************************************)
C1_ParseNeverPanics ==
    /\ result.kind \in {"None", "Ok", "Err"}
    /\ result.kind = "Ok" => is_table(top_level)

(***************************************************************************)
(* C2: an assignment whose leaf key is already present in the target table *)
(* never replaces the value, or the type of value, bound there before.     *)
(***************************************************************************)
C2_LeafBoundOnlyWhenAbsent ==
    [][(KeyValueInserted /\ HasPath(Target, Keys(kv'.path)))
         => SameContent(GetAt(Target', Keys(kv'.path)), GetAt(Target, Keys(kv'.path)))]_vars

\* `steps` is where the header path `names` leads from v: a step for each
\* name, in their order, with a step into the last element before it
\* wherever the walk stands at an Array
RECURSIVE IsPlaceOf(_, _, _)
IsPlaceOf(v, steps, names) ==
    IF steps = <<>> THEN names = <<>>
    ELSE IF Head(steps).kind = "idx"
    THEN /\ is_array(v)
         /\ Head(steps).idx = Len(v.values)
         /\ Head(steps).idx >= 1
         /\ IsPlaceOf(v.values[Head(steps).idx], Tail(steps), names)
    ELSE /\ names # <<>>
         /\ Head(steps).key = Head(names).lexeme
         /\ contains_key(v, Head(steps).key)
         /\ IsPlaceOf(get(v, Head(steps).key), Tail(steps), Tail(names))

\* the assignment parse_kv has just parsed is bound in v, under `steps`
BoundAt(v, steps) ==
    /\ kv'.value # None
    /\ HasPath(v, steps \o Keys(kv'.path))
    /\ GetAt(v, steps \o Keys(kv'.path)) = kv'.value[1]

(***************************************************************************)
(* C3: the current-table rule.  A [path] header makes the table at that    *)
(* path the current table; every assignment parsed from there to the next  *)
(* header is bound in that table and changes nothing outside it; an        *)
(* assignment parsed by parse's own loop comes before the first header and *)
(* is bound in the root.                                                   *)
(***************************************************************************)
C3_CurrentTableRule ==
    [][/\ (TableHeaderStep /\ pc' = "table_body")
            => IsPlaceOf(top_level', current', header'.path)
       /\ (TableBodyKeyValue /\ pc' = "table_body")
            => /\ header.kind = "table"
               /\ IsPlaceOf(top_level, current, header.path)
               /\ BoundAt(top_level', current)
               /\ SetAt(top_level', current, GetAt(top_level, current)) = top_level
       /\ (TopKeyValue /\ pc' = "top")
            => /\ header.kind = "none"
               /\ BoundAt(top_level', <<>>)]_vars

\* C3's case: an assignment under a header is bound in the header's table,
\* which is not the root, and the root has an assignment of its own
C3_Witness ==
    /\ pc = "table_body"
    /\ header.kind = "table"
    /\ current # <<>>
    /\ kv.value # None
    /\ top_level.key_values # <<>>
    /\ top_level.key_values[1].key # header.path[1].lexeme
    /\ HasPath(top_level, current \o Keys(kv.path))
    /\ GetAt(top_level, current \o Keys(kv.path)) = kv.value[1]

(***************************************************************************)
(* C4: arrays of tables.  A [[p]] header finds the Array at p, or makes an *)
(* empty one where p is missing, and starts a fresh empty Table; the       *)
(* assignments up to the next header are bound in that Table and leave the *)
(* tree alone; at the next header the Table is appended after the Tables   *)
(* of the [[p]] headers before it, which stay as they were.  So k headers  *)
(* [[p]] leave at p an Array of k Tables in header order, the i-th holding *)
(* the assignments written under the i-th header.                          *)
(***************************************************************************)
C4_ArrayOfTables ==
    [][/\ (ArrayHeaderStep /\ pc' = "array_body")
            => /\ IsPlaceOf(top_level', current', header'.path)
               /\ is_array(GetAt(top_level', current'))
               /\ IF HasPath(top_level, current') THEN top_level' = top_level
                  ELSE GetAt(top_level', current').values = <<>>
               /\ table' # None
               /\ is_table(table'[1])
               /\ table'[1].key_values = <<>>
       /\ (ArrayBodyKeyValue /\ pc' = "array_body")
            => /\ top_level' = top_level
               /\ BoundAt(table'[1], <<>>)
               /\ Len(table'[1].key_values) <= Len(table[1].key_values) + 1
               /\ \A j \in 1..Len(table[1].key_values) :
                      table[1].key_values[j].key # kv'.path[1].lexeme
                          => table'[1].key_values[j] = table[1].key_values[j]
       /\ ArrayBodyEnd
            => /\ GetAt(top_level', current).values
                      = Append(GetAt(top_level, current).values, table[1])
               /\ SetAt(top_level', current, GetAt(top_level, current)) = top_level]_vars

\* C4's case: two [[p]] headers, an assignment under the first, and parse has
\* returned: at p an Array of two Tables, the first with the assignment
C4_Witness ==
    /\ result.kind = "Ok"
    /\ header.kind = "array"
    /\ Len(header.path) = 1
    /\ contains_key(top_level, header.path[1].lexeme)
    /\ \E arr \in {get(top_level, header.path[1].lexeme)} :
           /\ is_array(arr)
           /\ Len(arr.values) = 2
           /\ is_table(arr.values[1])
           /\ is_table(arr.values[2])
           /\ Len(arr.values[1].key_values) = 1
           /\ arr.values[1].key_values[1].value.type = "integer"
           /\ arr.values[2].key_values = <<>>

\* the node a header path leads to from v, through the last element of
\* every Array on the way
RECURSIVE LastWalk(_, _)
LastWalk(v, names) ==
    IF names = <<>> THEN v
    ELSE IF is_array(v)
    THEN LastWalk(get(v.values[Len(v.values)], Head(names).lexeme), Tail(names))
    ELSE LastWalk(get(v, Head(names).lexeme), Tail(names))

(***************************************************************************)
(* C5: when parse succeeds, the Array a [[path]] header resolved to and    *)
(* appended to holds Tables only.  Stated of the last header of the        *)
(* document, where it is a [[path]] header.                                *)
(***************************************************************************)
C5_ArraysOfTablesOnly ==
    (result.kind = "Ok" /\ header.kind = "array")
        => \A arr \in {LastWalk(top_level, header.path)} :
               /\ is_array(arr)
               /\ \A j \in 1..Len(arr.values) : is_table(arr.values[j])

\* a node that is neither a Table nor an Array whose last element is a Table
\* stands where the walk of a header looks up one of the names
RECURSIVE MeetsNonTable(_, _)
MeetsNonTable(v, names) ==
    IF names = <<>> THEN FALSE
    ELSE \E at \in {IF is_array(v) /\ v.values # <<>> THEN v.values[Len(v.values)] ELSE v} :
             \/ ~is_table(at)
             \/ /\ contains_key(at, Head(names).lexeme)
                /\ MeetsNonTable(get(at, Head(names).lexeme), Tail(names))

(***************************************************************************)
(* C6: the walk of a [path] header.  Where a fragment is bound to an       *)
(* Array, the next fragment is looked up or created in the Array's last    *)
(* element; a node on the path that is no Table (an Array standing for its *)
(* last element) makes the header return IncorrectType.                    *)
(***************************************************************************)
C6_HeaderWalk ==
    [][(TableHeaderStep /\ header'.path # <<>>)
         => IF MeetsNonTable(top_level, header'.path)
            THEN result'.kind = "Err" /\ result'.err.error = "IncorrectType"
            ELSE pc' = "table_body" /\ IsPlaceOf(top_level', current', header'.path)]_vars

\* parse_kv has run, to its end or to an error
KeyValueStep == TopKeyValue \/ TableBodyKeyValue \/ ArrayBodyKeyValue

\* the first n fragments of a dotted key
Prefix(path, n) == Keys(SubSeq(path, 1, n))

\* a fragment of `path` before the last is bound, in v, to a value that is
\* not a Table
PrefixNotTable(v, path) ==
    \E n \in 1..(Len(path) - 1) :
        HasPath(v, Prefix(path, n)) /\ ~is_table(GetAt(v, Prefix(path, n)))

(***************************************************************************)
(* C7: dotted keys.  Where an assignment is parsed and a fragment before   *)
(* its last is bound to a value that is not a Table, parse returns         *)
(* IncorrectType and the tree is as it was.  Where the assignment is       *)
(* inserted, every fragment before the last leads to a Table, and one that *)
(* was missing leads to a Table made for it, holding the next fragment     *)
(* only.                                                                   *)
(***************************************************************************)
C7_DottedKeyPrefixes ==
    [][/\ (KeyValueStep /\ kv'.value # None /\ PrefixNotTable(Target, kv'.path))
            => /\ result'.kind = "Err"
               /\ result'.err.error = "IncorrectType"
               /\ top_level' = top_level
               /\ table' = table
       /\ KeyValueInserted
            => \A n \in 1..(Len(kv'.path) - 1) :
                   /\ HasPath(Target', Prefix(kv'.path, n))
                   /\ is_table(GetAt(Target', Prefix(kv'.path, n)))
                   /\ ~HasPath(Target, Prefix(kv'.path, n))
                          => /\ Len(GetAt(Target', Prefix(kv'.path, n)).key_values) = 1
                             /\ GetAt(Target', Prefix(kv'.path, n)).key_values[1].key
                                    = kv'.path[n + 1].lexeme]_vars

\* C7's case: a dotted key whose first fragment is bound in the root to a
\* value that is not a Table, and parse has returned IncorrectType
C7_Witness ==
    /\ result.kind = "Err"
    /\ result.err.error = "IncorrectType"
    /\ header.kind = "none"
    /\ kv.value # None
    /\ Len(kv.path) = 2
    /\ contains_key(top_level, kv.path[1].lexeme)
    /\ ~is_table(get(top_level, kv.path[1].lexeme))

(***************************************************************************)
(* C8: once parse's scanner has returned an Error token, whatever parse    *)
(* took it for, parse returns an error with that token's position, and     *)
(* never Ok.                                                               *)
(***************************************************************************)
C8_ErrorTokenSurfaces ==
    \A k \in ErrorTokens :
        (Handed(k) /\ result.kind \in {"Ok", "Err"})
            => /\ result.kind = "Err"
               /\ result.err.where_ = tokens[k].tok.pos

\* the error tells that the scanner reported e: it is that scan error, or its
\* text shows the Error token
Identifies(err, e) ==
    \/ err.error = e
    \/ /\ err.error = "ParseError"
       /\ Len(err.why) = 2
       /\ err.why[1] = "not yet supported:"
       /\ err.why[2].type_ = Error(e)

\* the line of grapheme g of the document, from 1
LineOf(g) == 1 + Cardinality({j \in 1..(g - 1) : doc[j] = "\n"})

\* the column of grapheme g of the document, from 0 at the start of a line
ColumnOf(g) ==
    Cardinality({j \in 1..(g - 1) : \A n \in j..(g - 1) : doc[n] # "\n"})

(***************************************************************************)
(* C9: where a string is opened and not closed before the end of the       *)
(* document, parse returns an error that tells of UnterminatedString, with *)
(* the byte, the line and the column of the opening quote (the column      *)
(* counted from 0 or from 1).                                              *)
(***************************************************************************)
C9_UnterminatedStringPosition ==
    \A k \in ErrorTokens :
        (/\ tokens[k].tok.type_.error = "UnterminatedString"
         /\ Handed(k)
         /\ result.kind # "None")
            => /\ result.kind = "Err"
               /\ Identifies(result.err, "UnterminatedString")
               /\ \E g \in {GraphemesBefore(tokens[k].tok.pos.byte, 0, Len(doc)) + 1} :
                      /\ doc[g] \in {"\"", "'"}
                      /\ result.err.where_.byte = NumBytes(SubSeq(doc, 1, g - 1))
                      /\ result.err.where_.line = LineOf(g)
                      /\ result.err.where_.col \in {ColumnOf(g), ColumnOf(g) + 1}

(***************************************************************************)
(* C10: scan is consistent with parse: if parse(doc) returns Ok, then      *)
(* scan(doc) returns Ok.                                                   *)
(***************************************************************************)
C10_ScanConsistentWithParse ==
    (result.kind = "Ok" /\ scanned.kind # "None") => scanned.kind = "Ok"

\* the digits of base 16 in the order of their usual values, from 0
UsualDigits == <<"0", "1", "2", "3", "4", "5", "6", "7", "8", "9", "a", "b", "c", "d", "e", "f">>

UpperDigits == <<"0", "1", "2", "3", "4", "5", "6", "7", "8", "9", "A", "B", "C", "D", "E", "F">>

\* the usual value of a digit
UsualValue(g) == (CHOOSE n \in 1..16 : UsualDigits[n] = g \/ UpperDigits[n] = g) - 1

\* the base a prefix letter announces
BaseOf(letter) == IF letter = "x" THEN 16 ELSE IF letter = "o" THEN 8 ELSE 2

\* the number the digits write in the base, the underscores left out
RECURSIVE ReadInBase(_, _, _)
ReadInBase(digits, n, base) ==
    IF n = 0 THEN 0
    ELSE IF digits[n] = "_" THEN ReadInBase(digits, n - 1, base)
    ELSE ReadInBase(digits, n - 1, base) * base + UsualValue(digits[n])

\* lex is 0x, 0o or 0b and then digits of that base, and underscores
AltBaseLiteral(lex) ==
    /\ Len(lex) >= 3
    /\ lex[1] = "0"
    /\ lex[2] \in {"x", "o", "b"}
    /\ \A j \in 3..Len(lex) :
           \/ lex[j] = "_"
           \/ \E n \in 1..BaseOf(lex[2]) : lex[j] \in {UsualDigits[n], UpperDigits[n]}
    /\ \E j \in 3..Len(lex) : lex[j] # "_"

(***************************************************************************)
(* C12: a literal 0x.., 0o.. or 0b.. is an Integer token whose value is    *)
(* what its digits write in base 16, 8 or 2, with the usual digit values   *)
(* and the underscores left out.                                           *)
(***************************************************************************)
C12_AltBaseValue ==
    \A k \in 1..Len(tokens) :
        AltBaseLiteral(tokens[k].tok.lexeme)
            => tokens[k].tok.type_
                   = Integer(ReadInBase(SubSeq(tokens[k].tok.lexeme, 3, Len(tokens[k].tok.lexeme)),
                                        Len(tokens[k].tok.lexeme) - 2,
                                        BaseOf(tokens[k].tok.lexeme[2])))

\* s without the commas that stand right before a closing bracket or brace
RECURSIVE StripComma(_)
StripComma(s) ==
    IF s = <<>> THEN <<>>
    ELSE IF Head(s) = "," /\ Len(s) >= 2 /\ s[2] \in {"]", "}"} THEN StripComma(Tail(s))
    ELSE <<Head(s)>> \o StripComma(Tail(s))

\* where the first line of the document ends
FirstLineEnd == CHOOSE e \in 1..Len(doc) : doc[e] = "\n" /\ \A j \in 1..(e - 1) : doc[j] # "\n"

\* the document is two assignments, each on a line and to a key of one
\* grapheme, that differ in the key and in that the value of the first has
\* one trailing comma, which the value of the second has not
CommaPair ==
    /\ Cardinality({j \in 1..Len(doc) : doc[j] = "\n"}) = 2
    /\ doc[Len(doc)] = "\n"
    /\ \E first \in {SubSeq(doc, 1, FirstLineEnd)} :
       \E second \in {SubSeq(doc, FirstLineEnd + 1, Len(doc))} :
           /\ Len(first) = Len(second) + 1
           /\ first[2] = "="
           /\ first[1] # second[1]
           /\ Tail(second) = Tail(StripComma(first))

\* a value with the line and the byte of every position in it left out
RECURSIVE Unplaced(_)
Unplaced(v) ==
    IF is_table(v)
    THEN [type |-> v.type, col |-> v.pos.col,
          key_values |-> [j \in 1..Len(v.key_values) |->
                             [key |-> v.key_values[j].key,
                              value |-> Unplaced(v.key_values[j].value)]]]
    ELSE IF is_array(v)
    THEN [type |-> v.type, col |-> v.pos.col,
          values |-> [j \in 1..Len(v.values) |-> Unplaced(v.values[j])]]
    ELSE [v EXCEPT !.pos = Pos(0, v.pos.col, 0)]

(***************************************************************************)
(* C13: trailing-comma equivalence.  Where the document assigns to one key *)
(* an array or an inline table with a trailing comma and to another key    *)
(* the same text without that comma, parse binds both or neither, and to   *)
(* the same tree, the line and byte of its positions apart.                *)
(***************************************************************************)
C13_TrailingCommaEquivalence ==
    (CommaPair /\ result.kind \in {"Ok", "Err"})
        => /\ contains_key(top_level, <<doc[1]>>)
                  <=> contains_key(top_level, <<doc[FirstLineEnd + 1]>>)
           /\ contains_key(top_level, <<doc[1]>>)
                  => Unplaced(get(top_level, <<doc[1]>>))
                         = Unplaced(get(top_level, <<doc[FirstLineEnd + 1]>>))

\* the tokens that next returned and that are not Eof
NonEof == {k \in 1..Len(tokens) : tokens[k].tok.type_ # Eof}

(***************************************************************************)
(* C14: the lexeme of every token that is not Eof is the substring of the  *)
(* document that the token covers, from the byte where the token starts    *)
(* through the last grapheme consumed for it, a token that ends at the     *)
(* last byte of the document included.                                     *)
(***************************************************************************)
C14_LexemeIsCoveredText ==
    \A k \in NonEof :
        tokens[k].tok.lexeme
            = Slice(tokens[k].sc.start_byte,
                    tokens[k].sc.start_byte + tokens[k].sc.len_bytes)

\* the grapheme of the document that token k starts with, from 1
FirstGrapheme(k) == GraphemesBefore(tokens[k].sc.start_byte, 0, Len(doc)) + 1

(***************************************************************************)
(* C15: the position of every token is that of its first grapheme: the     *)
(* byte where the token starts, the line of that grapheme and its column   *)
(* (the column counted from 0 or from 1), not where the cursor stands      *)
(* after the token.                                                        *)
(***************************************************************************)
C15_PositionAtTokenStart ==
    \A k \in NonEof :
        \E g \in {FirstGrapheme(k)} :
            /\ tokens[k].tok.pos.byte = NumBytes(SubSeq(doc, 1, g - 1))
            /\ tokens[k].tok.pos.line = LineOf(g)
            /\ tokens[k].tok.pos.col \in {ColumnOf(g), ColumnOf(g) + 1}

\* the states of the scanner that the model holds: the one parse has
\* reached, and the one that each call of next left
Cursors == {scanner} \cup {tokens[k].sc : k \in 1..Len(tokens)}

\* the line endings among the first n graphemes of the document
Breaks(n) == {j \in 1..n : doc[j] \in {"\n", CRLF}}

(***************************************************************************)
(* C16: a line ending \r\n counts as one line break, as a lone \n does: in *)
(* every state of the cursor the line is 1 more than the number of line    *)
(* endings (\n or \r\n) consumed, and the column is the number of          *)
(* graphemes consumed since the last of them.                              *)
(***************************************************************************)
C16_CrLfIsOneLineBreak ==
    \A sc \in Cursors :
        /\ sc.line = 1 + Cardinality(Breaks(sc.i))
        /\ sc.column = Cardinality({j \in 1..sc.i : Breaks(sc.i) \cap j..sc.i = {}})

\* the positions of a value and of every value in it
RECURSIVE Positions(_)
Positions(v) ==
    {v.pos} \cup
    (IF is_table(v)
     THEN UNION {Positions(v.key_values[j].value) : j \in 1..Len(v.key_values)}
     ELSE IF is_array(v)
     THEN UNION {Positions(v.values[j]) : j \in 1..Len(v.values)}
     ELSE {})

\* the byte after the last that token k covers
EndByte(k) == tokens[k].sc.start_byte + tokens[k].sc.len_bytes

(***************************************************************************)
(* C17: in every state of the scanner start_byte + len_bytes is the number *)
(* of bytes consumed and at most the length of the input; the byte offset  *)
(* of every token and of every value of the tree is in [0, input.len()];   *)
(* the offsets of the tokens never decrease, and of two tokens that are    *)
(* not Eof the later starts at or after the byte where the earlier ends.   *)
(***************************************************************************)
C17_ByteAccounting ==
    /\ \A sc \in Cursors :
           /\ sc.start_byte + sc.len_bytes = NumBytes(SubSeq(doc, 1, sc.i))
           /\ sc.start_byte + sc.len_bytes <= SourceLen
    /\ \A k \in 1..Len(tokens) : tokens[k].tok.pos.byte \in 0..SourceLen
    /\ pc # "start" => \A p \in Positions(top_level) : p.byte \in 0..SourceLen
    /\ \A j, k \in 1..Len(tokens) :
           j < k => /\ tokens[j].tok.pos.byte <= tokens[k].tok.pos.byte
                    /\ (tokens[j].tok.type_ # Eof /\ tokens[k].tok.type_ # Eof)
                           => EndByte(j) <= tokens[k].tok.pos.byte

\* parse has returned a tree for a document with a grapheme of two bytes
\* and whitespace between tokens, and a value in the tree starts after byte 0
C17_Witness ==
    /\ result.kind = "Ok"
    /\ \E j \in 1..Len(doc) : ByteLen(doc[j]) = 2
    /\ Len(tokens) >= 5
    /\ \E k \in NonEof : k > 1 /\ tokens[k].tok.pos.byte > EndByte(k - 1)
    /\ \E p \in Positions(top_level) : p.byte > 0

\* the document is one line that assigns to a key of one grapheme an array
\* whose first element is an array
NestedArrayDoc ==
    /\ Len(doc) >= 5
    /\ {j \in 1..Len(doc) : doc[j] \in {"\n", CRLF}} = {Len(doc)}
    /\ doc[2] = "=" /\ doc[3] = "["
    /\ \E j \in 4..Len(doc) : doc[j] = "[" /\ \A n \in 4..(j - 1) : doc[n] = " "

(***************************************************************************)
(* C18: every [ and every ] of the document is a token of its own, never   *)
(* one token with the bracket next to it, and a document that assigns an   *)
(* array whose elements are arrays, with or without whitespace between the *)
(* brackets, parses to an Array of Arrays.                                 *)
(***************************************************************************)
C18_OneTokenPerBracket ==
    /\ \A k \in NonEof :
           doc[FirstGrapheme(k)] \in {"[", "]"}
               => /\ tokens[k].sc.len_bytes = 1
                  /\ tokens[k].tok.type_ \in {LeftBracket, RightBracket}
    /\ (NestedArrayDoc /\ result.kind # "None")
           => /\ result.kind = "Ok"
              /\ contains_key(top_level, <<doc[1]>>)
              /\ \E v \in {get(top_level, <<doc[1]>>)} :
                     /\ is_array(v)
                     /\ Len(v.values) >= 1
                     /\ \A j \in 1..Len(v.values) : is_array(v.values[j])

\* a value and every value in it
RECURSIVE Values(_)
Values(v) ==
    {v} \cup
    (IF is_table(v)
     THEN UNION {Values(v.key_values[j].value) : j \in 1..Len(v.key_values)}
     ELSE IF is_array(v)
     THEN UNION {Values(v.values[j]) : j \in 1..Len(v.values)}
     ELSE {})

\* the quotes that delimit the string lex at each end: three for a
\* triple-quoted string, else one
Delimiters(lex) ==
    IF Len(lex) >= 6 /\ lex[2] = lex[1] /\ lex[3] = lex[1] THEN 3 ELSE 1

(***************************************************************************)
(* C19: the value of every String of the tree is the lexeme of its token   *)
(* without the delimiters: without one quote at each end for a string in   *)
(* single or double quotes, without three at each end for a string in      *)
(* triple quotes.                                                          *)
(***************************************************************************)
C19_StringWithoutDelimiters ==
    pc # "start" =>
        \A v \in {w \in Values(top_level) : w.type = "string"} :
            \E k \in NonEof :
                /\ tokens[k].tok.type_ = String
                /\ tokens[k].tok.pos = v.pos
                /\ \E lex \in {tokens[k].tok.lexeme} :
                       v.value = SubSeq(lex, Delimiters(lex) + 1, Len(lex) - Delimiters(lex))

\* token k starts at a pair of quotes that no third quote follows
LonePair(k) ==
    \E g \in {FirstGrapheme(k)} :
        /\ doc[g] \in {"\"", "'"}
        /\ g + 1 <= Len(doc) /\ doc[g + 1] = doc[g]
        /\ (g + 2 <= Len(doc) => doc[g + 2] # doc[g])

(***************************************************************************)
(* C20: where a token starts at two adjacent quotes that no third follows, *)
(* the token is an Error of kind IncorrectQuoteCount and ends with the     *)
(* second quote: the text after the pair is not consumed as the content    *)
(* of a string.                                                            *)
(***************************************************************************)
C20_LonePairOfQuotes ==
    \A k \in NonEof :
        LonePair(k)
            => /\ tokens[k].tok.type_ = Error("IncorrectQuoteCount")
               /\ tokens[k].sc.i = FirstGrapheme(k) + 1

(***************************************************************************)
(* The descent of parse_kv, parse_value, parse_array and parse_table call  *)
(* by call.  A second specification follows parse over documents of        *)
(* key/value lines with one step for each call of next, one for each       *)
(* entry into a parse function and one for each return, the calls under    *)
(* way kept in `stack` with the depth each was entered with.  pc is "lex"  *)
(* while the tokens are scanned, "begin", "descend" in parse's loop and    *)
(* below it, "done".                                                       *)
(***************************************************************************)
MaxNest == 65

\* a={a={a= .. 1 .. }}} on one line: n inline tables, one inside the other
TableNest(n) ==
    <<"a", "=">> \o [j \in 1..(3 * n) |-> <<"{", "a", "=">>[((j - 1) % 3) + 1]]
                 \o <<"1">> \o [j \in 1..n |-> "}"] \o <<"\n">>

\* a=[ [ [ .. 1 .. ] ] ] on one line: n arrays, one inside the other
ArrayNest(n) ==
    <<"a", "=">> \o [j \in 1..(2 * n) |-> <<"[", " ">>[((j - 1) % 2) + 1]]
                 \o <<"1">> \o [j \in 1..(2 * n) |-> <<" ", "]">>[((j - 1) % 2) + 1]]
                 \o <<"\n">>

NestDocs ==
    {TableNest(n) : n \in 0..MaxNest} \cup {ArrayNest(n) : n \in 0..MaxNest}
        \cup {<<"a", "=", "{", "b", "=", "[", "1", ",", "{", "}", ",", "]", ",",
                "c", ".", "d", "=", "2", ",", "}", "\n", "e", "=", "3", "\n">>,
              <<"a", "=", "[", "]", "\n", "}", "\n">>,
              <<"a", "=", "{", "b", "=", "1", ",", "b", ".", "c", "=", "2", "}", "\n">>}

\* a call under way: the function, the depth it was entered with, the call
\* or return it has come to, and its locals (parse_kv: path and _equals.pos;
\* parse_table: key_values; parse_array: values; in acc also the value a
\* function is about to return)
Frame(fn, depth, stage, path, equals, acc) ==
    [fn |-> fn, depth |-> depth, stage |-> stage, path |-> path, equals |-> equals,
     acc |-> acc]

Top == stack[Len(stack)]

Caller == stack[Len(stack) - 1]

\* ensure!: `if $depth > 64` with no limit
ExceedsNever(depth) == FALSE

\* ensure!: `if $depth > 64`
Exceeds(depth) == depth > RecursionLimit

\* parse_kv from its entry to its call of parse_value
KvHead(sc, depth) ==
    IF Exceeds(depth)
    THEN LimitExceeded(sc) @@ [names |-> <<>>, equals |-> Pos(0, 0, 0)]
    ELSE Bind(parse_path(sc), LAMBDA pp :
         IF pp.st # "ok" THEN Failed(pp.st, pp.sc, pp.err) @@ [names |-> <<>>, equals |-> Pos(0, 0, 0)]
         ELSE Bind(consume(pp.sc, Equals), LAMBDA eq :
              [st |-> eq.st, sc |-> eq.sc, err |-> eq.err,
               names |-> pp.names, equals |-> eq.tok.pos]))

\* parse_value from its entry to its call of parse_array or parse_table or
\* to its return
ValueHead(sc, depth) ==
    IF Exceeds(depth) THEN LimitExceeded(sc) @@ [value |-> None, stage |-> "failed"]
    ELSE Bind(next_token(sc), LAMBDA r :
         IF r.tok.type_ = LeftBracket
         THEN Good(r.sc, None) @@ [stage |-> "parse_array"]
         ELSE IF r.tok.type_ = LeftBrace
         THEN Good(r.sc, None) @@ [stage |-> "parse_table"]
         ELSE Bind(ValueOf(r.tok, r.sc, depth + 1), LAMBDA v :
                  v @@ [stage |-> IF v.st = "ok" THEN "return" ELSE "failed"]))

\* parse_table from its entry to its first call of parse_kv, or to the
\* return of an empty Table
TableHead(sc, depth) ==
    IF Exceeds(depth) THEN LimitExceeded(sc) @@ [value |-> None, stage |-> "failed"]
    ELSE Bind(peek_token(sc), LAMBDA p :
         IF p.tok.type_ = RightBrace
         THEN Bind(consume(p.sc, RightBrace), LAMBDA rb :
                  Good(rb.sc, new_table(p.tok.pos)) @@ [stage |-> "return"])
         ELSE Good(p.sc, new_table(p.tok.pos)) @@ [stage |-> "parse_kv"])

\* parse_array from its entry to its first call of parse_value, or to the
\* return of an empty Array
ArrayHead(sc, depth) ==
    IF Exceeds(depth) THEN LimitExceeded(sc) @@ [value |-> None, stage |-> "failed"]
    ELSE Bind(peek_token(sc), LAMBDA p :
         IF p.tok.type_ = RightBracket
         THEN Bind(consume(p.sc, RightBracket), LAMBDA rb :
                  Good(rb.sc, new_array(p.tok.pos)) @@ [stage |-> "return"])
         ELSE Good(p.sc, new_array(p.tok.pos)) @@ [stage |-> "parse_value"])

\* the while loop of parse_table and of parse_array after a pair or an
\* element, up to the next call ("more") or through the closing token
Turn(sc, closing) ==
    LET end(s) == Bind(consume(s, closing), LAMBDA rb :
                      [st |-> IF rb.st = "ok" THEN "end" ELSE rb.st,
                       sc |-> rb.sc, err |-> rb.err])
    IN  Bind(peek_token(sc), LAMBDA p :
            IF p.tok.type_ = Comma /\ ~is_at_end(p.sc)
            THEN Bind(consume(p.sc, Comma), LAMBDA comma :
                 Bind(peek_token(comma.sc), LAMBDA p2 :
                     IF p2.tok.type_ = closing THEN end(p2.sc)
                     ELSE [st |-> "more", sc |-> p2.sc, err |-> NoError]))
            ELSE end(p.sc))

\* parse(doc) has been called, and nothing has been scanned
InitDescent ==
    /\ doc \in NestDocs
    /\ tokens = <<>>
    /\ scanner = NewScanner
    /\ top_level = None
    /\ pc = "lex"
    /\ current = <<>>
    /\ table = None
    /\ kv = [path |-> <<>>, value |-> None]
    /\ header = [kind |-> "none", path |-> <<>>]
    /\ result = NoResult
    /\ scanned = NoResult
    /\ stack = <<>>
    /\ Idle

\* Scanner::next, from where the call before left the scanner
LexStep ==
    /\ pc = "lex"
    /\ \E r \in {next(IF tokens = <<>> THEN NewScanner ELSE tokens[Len(tokens)].sc)} :
           /\ tokens' = Append(tokens, r)
           /\ pc' = IF r.tok.type_ = Eof THEN "begin" ELSE "lex"
    /\ UNCHANGED <<doc, outside, stack, scanner, top_level, current, table, kv, header, result,
                   scanned>>

\* parse: Scanner::new and top_level
DescentBegins ==
    /\ pc = "begin"
    /\ pc' = "descend"
    /\ scanner' = peek_token(NewScanner).sc
    /\ top_level' = new_table(Peeked(NewScanner).pos)
    /\ UNCHANGED <<doc, outside, stack, tokens, current, table, kv, header, result, scanned>>

\* parse's loop ends: Ok(top_level)
DescentReturns ==
    /\ pc = "descend" /\ stack = <<>>
    /\ Peeked(scanner).type_ = Eof
    /\ pc' = "done"
    /\ result' = OkResult
    /\ scanner' = peek_token(scanner).sc
    /\ UNCHANGED <<doc, outside, stack, tokens, top_level, current, table, kv, header, scanned>>

\* parse: the else arm
DescentUnexpected ==
    /\ pc = "descend" /\ stack = <<>>
    /\ Peeked(scanner).type_ # Eof
    /\ ~may_be_key(Peeked(scanner).type_)
    /\ Peeked(scanner).type_ \notin {LeftBracket, DoubleLeftBracket}
    /\ pc' = "done"
    /\ result' = [kind |-> "Err",
                  err |-> ParseError(<<"expected key or table header, got",
                                       Peeked(scanner).lexeme>>, Peeked(scanner).pos)]
    /\ scanner' = peek_token(scanner).sc
    /\ UNCHANGED <<doc, outside, stack, tokens, top_level, current, table, kv, header, scanned>>

\* what a step that may fail leaves in pc and result
Goes(st, err) ==
    /\ pc' = IF st \in {"ok", "more", "end"} THEN pc ELSE "done"
    /\ result' = IF st \in {"ok", "more", "end"} THEN result
                 ELSE Outcome([st |-> st, err |-> err])

\* parse_kv is entered, by parse with depth 0 or by parse_table, and runs
\* to its call of parse_value
EnterParseKv ==
    /\ pc = "descend"
    /\ IF stack = <<>>
       THEN Peeked(scanner).type_ # Eof /\ may_be_key(Peeked(scanner).type_)
       ELSE Top.fn = "parse_table" /\ Top.stage = "parse_kv"
    /\ \E depth \in {IF stack = <<>> THEN 0 ELSE Top.depth + 1} :
       \E r \in {KvHead(peek_token(scanner).sc, depth)} :
           /\ scanner' = r.sc
           /\ stack' = Append(stack, Frame("parse_kv", depth,
                                           IF r.st = "ok" THEN "parse_value" ELSE "failed",
                                           r.names, r.equals, None))
           /\ Goes(r.st, r.err)
    /\ UNCHANGED <<doc, outside, tokens, top_level, current, table, kv, header, scanned>>

\* parse_value is entered, by parse_kv or by parse_array, and runs to its
\* call of parse_array or parse_table, or to the value it returns
EnterParseValue ==
    /\ pc = "descend" /\ stack # <<>>
    /\ Top.fn \in {"parse_kv", "parse_array"} /\ Top.stage = "parse_value"
    /\ \E r \in {ValueHead(scanner, Top.depth + 1)} :
           /\ scanner' = r.sc
           /\ stack' = Append(stack, Frame("parse_value", Top.depth + 1, r.stage,
                                           <<>>, Pos(0, 0, 0), r.value))
           /\ Goes(r.st, r.err)
    /\ UNCHANGED <<doc, outside, tokens, top_level, current, table, kv, header, scanned>>

\* parse_table is entered by parse_value and runs to its first call of
\* parse_kv, or to the empty Table it returns
EnterParseTable ==
    /\ pc = "descend" /\ stack # <<>>
    /\ Top.fn = "parse_value" /\ Top.stage = "parse_table"
    /\ \E r \in {TableHead(scanner, Top.depth + 1)} :
           /\ scanner' = r.sc
           /\ stack' = Append(stack, Frame("parse_table", Top.depth + 1, r.stage,
                                           <<>>, Pos(0, 0, 0), r.value))
           /\ Goes(r.st, r.err)
    /\ UNCHANGED <<doc, outside, tokens, top_level, current, table, kv, header, scanned>>

\* parse_array is entered by parse_value and runs to its first call of
\* parse_value, or to the empty Array it returns
EnterParseArray ==
    /\ pc = "descend" /\ stack # <<>>
    /\ Top.fn = "parse_value" /\ Top.stage = "parse_array"
    /\ \E r \in {ArrayHead(scanner, Top.depth + 1)} :
           /\ scanner' = r.sc
           /\ stack' = Append(stack, Frame("parse_array", Top.depth + 1, r.stage,
                                           <<>>, Pos(0, 0, 0), r.value))
           /\ Goes(r.st, r.err)
    /\ UNCHANGED <<doc, outside, tokens, top_level, current, table, kv, header, scanned>>

\* parse_array or parse_table returns its value to parse_value, which
\* returns it in turn
ReturnArrayOrTable ==
    /\ pc = "descend" /\ stack # <<>>
    /\ Top.fn \in {"parse_array", "parse_table"} /\ Top.stage = "return"
    /\ stack' = [SubSeq(stack, 1, Len(stack) - 1)
                     EXCEPT ![Len(stack) - 1].stage = "return",
                            ![Len(stack) - 1].acc = Top.acc]
    /\ UNCHANGED <<doc, outside, tokens, scanner, top_level, pc, current, table, kv, header,
                   result, scanned>>

\* parse_value returns to parse_array, which pushes the value and runs to
\* its next call of parse_value or to its return
ReturnValueToArray ==
    /\ pc = "descend" /\ stack # <<>>
    /\ Top.fn = "parse_value" /\ Top.stage = "return"
    /\ Caller.fn = "parse_array"
    /\ \E r \in {Turn(scanner, RightBracket)} :
           /\ scanner' = r.sc
           /\ stack' = [SubSeq(stack, 1, Len(stack) - 1)
                            EXCEPT ![Len(stack) - 1].acc = append(@, Top.acc),
                                   ![Len(stack) - 1].stage =
                                       IF r.st = "more" THEN "parse_value"
                                       ELSE IF r.st = "end" THEN "return" ELSE "failed"]
           /\ Goes(r.st, r.err)
    /\ UNCHANGED <<doc, outside, tokens, top_level, current, table, kv, header, scanned>>

\* parse_value returns to parse_kv, which binds the value in `current`
\* (parse's top_level or parse_table's key_values) and comes to its return
ReturnValueToKv ==
    /\ pc = "descend" /\ stack # <<>>
    /\ Top.fn = "parse_value" /\ Top.stage = "return"
    /\ Caller.fn = "parse_kv"
    /\ \E sv \in {Stitch(scanner, Top.acc)} :
       \E w \in {InsertPath(IF Len(stack) = 2 THEN top_level ELSE stack[Len(stack) - 2].acc,
                            Caller.path, 1, sv.value, Caller.equals)} :
           /\ scanner' = sv.sc
           /\ top_level' = IF Len(stack) = 2 THEN w.cur ELSE top_level
           /\ stack' = [j \in 1..(Len(stack) - 1) |->
                           IF j = Len(stack) - 1
                           THEN [stack[j] EXCEPT !.stage = IF w.st = "ok" THEN "return"
                                                           ELSE "failed"]
                           ELSE IF j = Len(stack) - 2
                           THEN [stack[j] EXCEPT !.acc = w.cur]
                           ELSE stack[j]]
           /\ kv' = [path |-> Caller.path, value |-> Some(sv.value)]
           /\ Goes(w.st, w.err)
    /\ UNCHANGED <<doc, outside, tokens, current, table, header, scanned>>

\* parse_kv returns, to parse's loop or to parse_table, which runs to its
\* next call of parse_kv or to its return
ReturnKv ==
    /\ pc = "descend" /\ stack # <<>>
    /\ Top.fn = "parse_kv" /\ Top.stage = "return"
    /\ IF Len(stack) = 1
       THEN /\ stack' = <<>>
            /\ UNCHANGED <<scanner, pc, result>>
       ELSE \E r \in {Turn(scanner, RightBrace)} :
                /\ scanner' = r.sc
                /\ stack' = [SubSeq(stack, 1, Len(stack) - 1)
                                 EXCEPT ![Len(stack) - 1].stage =
                                            IF r.st = "more" THEN "parse_kv"
                                            ELSE IF r.st = "end" THEN "return"
                                            ELSE "failed"]
                /\ Goes(r.st, r.err)
    /\ UNCHANGED <<doc, outside, tokens, top_level, current, table, kv, header, scanned>>

NextDescent ==
    \/ LexStep
    \/ DescentBegins
    \/ DescentReturns
    \/ DescentUnexpected
    \/ EnterParseKv
    \/ EnterParseValue
    \/ EnterParseTable
    \/ EnterParseArray
    \/ ReturnArrayOrTable
    \/ ReturnValueToArray
    \/ ReturnValueToKv
    \/ ReturnKv

SpecDescent == InitDescent /\ [][NextDescent]_vars

(***************************************************************************)
(* C11: the depth guard.  No parse function is entered with a depth above  *)
(* 65, and parse rejects a document whose value is 65 inline tables, one   *)
(* inside the other, with ParseError "recursion limit exceeded".           *)
(***************************************************************************)
C11_DepthGuard ==
    /\ \A j \in 1..Len(stack) : stack[j].depth <= RecursionLimit + 1
    /\ (pc = "done" /\ doc \in {TableNest(n) : n \in (RecursionLimit + 1)..MaxNest})
           => /\ result.kind = "Err"
              /\ result.err.error = "ParseError"
              /\ result.err.why = <<"recursion limit exceeded">>

\* parse has rejected the document of 65 nested inline tables, in a
\* function entered with depth 65
C11_Witness ==
    /\ pc = "done"
    /\ doc = TableNest(RecursionLimit + 1)
    /\ result.kind = "Err"
    /\ result.err.why = <<"recursion limit exceeded">>
    /\ Top.stage = "failed"
    /\ Top.depth = RecursionLimit + 1

\* text is a decimal integer or float without sign, or inf, or nan
NumericText(text) ==
    \/ text \in {<<"i", "n", "f">>, <<"n", "a", "n">>}
    \/ /\ text # <<>>
       /\ is_digit(text[1]) /\ is_digit(text[Len(text)])
       /\ \A j \in 1..Len(text) : is_digit(text[j]) \/ text[j] = "."
       /\ Cardinality({j \in 1..Len(text) : text[j] = "."}) <= 1

\* the text after `=` on the first line of the document
FirstValueText == SubSeq(doc, 3, FirstLineEnd - 1)

\* the document is two lines, k1=-N and k2=N, for keys of one grapheme and
\* a numeric text N
NegPair ==
    /\ Cardinality({j \in 1..Len(doc) : doc[j] = "\n"}) = 2
    /\ doc[Len(doc)] = "\n"
    /\ doc[2] = "=" /\ doc[3] = "-"
    /\ NumericText(Tail(FirstValueText))
    /\ doc[1] # doc[FirstLineEnd + 1]
    /\ SubSeq(doc, FirstLineEnd + 2, Len(doc))
           = <<"=">> \o Tail(FirstValueText) \o <<"\n">>

\* v is the number w negated
Negates(v, w) ==
    /\ v.type = w.type
    /\ IF w.type = "integer" THEN v.value = 0 - w.value
       ELSE /\ w.type = "float"
            /\ v.value.kind = w.value.kind
            /\ w.value.kind = "nan" \/ v.value = [w.value EXCEPT !.neg = ~@]

(***************************************************************************)
(* C21: a leading - negates the number that follows.  Where the document   *)
(* assigns -N to one key and N to another, for N a decimal integer or      *)
(* float, inf or nan, parse binds both and the first to the negated value  *)
(* of the second (a NaN for nan); where - stands before anything else in   *)
(* the place of a value, parse returns an error.                           *)
(***************************************************************************)
C21_LeadingMinusNegates ==
    /\ (NegPair /\ result.kind # "None")
           => /\ result.kind = "Ok"
              /\ Negates(get(top_level, <<doc[1]>>),
                         get(top_level, <<doc[FirstLineEnd + 1]>>))
    /\ (/\ result.kind # "None"
        /\ Len(doc) >= 4 /\ doc[Len(doc)] = "\n"
        /\ doc[2] = "=" /\ doc[3] = "-"
        /\ ~NumericText(Tail(FirstValueText)))
           => result.kind = "Err"

\* a year that has a 29th of February
IsLeap(year) == year % 4 = 0 /\ (year % 100 # 0 \/ year % 400 = 0)

\* d is a date of the calendar
ValidDate(d) ==
    /\ d.month \in 1..12
    /\ d.day \in 1..31
    /\ d.month \in {4, 6, 9, 11} => d.day <= 30
    /\ d.month = 2 => d.day <= (IF IsLeap(d.year) THEN 29 ELSE 28)

(***************************************************************************)
(* C22: no Date or Datetime token holds a date that the calendar has not:  *)
(* a month outside 1..12, a day outside 1..31, a 31st in April, June,      *)
(* September or November, a 30th of February, or a 29th of February in a   *)
(* year that is not a leap year.                                           *)
(***************************************************************************)
C22_NoInvalidCalendarDate ==
    \A k \in 1..Len(tokens) :
        /\ tokens[k].tok.type_.tag = "Date" => ValidDate(tokens[k].tok.type_.date)
        /\ tokens[k].tok.type_.tag = "Datetime"
               => ValidDate(tokens[k].tok.type_.datetime.date[1])

\* the offset of a Time or Datetime token type, None where it has none
OffsetOf(type_) ==
    IF type_.tag = "Time" THEN type_.offset
    ELSE IF type_.tag = "Datetime" THEN type_.datetime.offset
    ELSE None

\* the minutes that the suffix +HH:MM or -HH:MM at the end of lex stands for
SuffixMinutes(lex) ==
    LET n == Len(lex)
    IN  (IF lex[n - 5] = "+" THEN 1 ELSE 0 - 1)
            * ((UsualValue(lex[n - 4]) * 10 + UsualValue(lex[n - 3])) * 60
               + UsualValue(lex[n - 1]) * 10 + UsualValue(lex[n]))

(***************************************************************************)
(* C23: every Offset::Minutes of a token is a count of minutes within      *)
(* [-1440, +1440] and is sign * (HH * 60 + MM) for the suffix +HH:MM or    *)
(* -HH:MM of the token.                                                    *)
(***************************************************************************)
C23_OffsetMinutesInRange ==
    \A k \in 1..Len(tokens) :
        \A o \in {OffsetOf(tokens[k].tok.type_)} :
            (o # None /\ o[1].kind = "Minutes")
                => /\ o[1].minutes \in (0 - 1440)..1440
                   /\ o[1].minutes = SuffixMinutes(tokens[k].tok.lexeme)

(***************************************************************************)
(* Schema projection (lib.rs): BlackDwarf::try_from reads the tree parse   *)
(* returned.  An IndexMap is a sequence of [key, value], as in a Table.    *)
(***************************************************************************)
\* FileGroup::new and Target::new: the two structs have the same fields
FileGroupNew(name) == [name |-> name, groups |-> <<>>, files |-> <<>>]

\* FileGroup::files
FileGroupFiles(name, files) == [name |-> name, groups |-> <<>>, files |-> files]

\* Target::groups
TargetGroups(name, groups) == [name |-> name, groups |-> groups, files |-> <<>>]

\* BlackDwarf::new
NewBlackDwarf == [file_groups |-> <<>>, targets |-> <<>>]

has_file_group(bd, name) ==
    \E j \in 1..Len(bd.file_groups) : bd.file_groups[j].key = name

is_str(v) == v.type = "string"

UnknownFileGroup(what, where_) ==
    [error |-> "UnknownFileGroup", what |-> what, where_ |-> where_]

\* Err of the first element that is not a string, NoError where all are
ensure_all_string(list) ==
    IF \E j \in 1..Len(list) : ~is_str(list[j])
    THEN LET j == CHOOSE k \in 1..Len(list) :
                      ~is_str(list[k]) /\ \A m \in 1..(k - 1) : is_str(list[m])
         IN  IncorrectType(type_str(list[j]), "string", list[j].pos)
    ELSE NoError

\* .map(Value::as_str).map(Option::unwrap).collect()
Strs(list) == [j \in 1..Len(list) |-> list[j].value]

\* this.$into.insert(name, entry), $into one of file_groups and targets
Into(bd, into, name, entry) ==
    LET map == bd[into]
        put == IF \E j \in 1..Len(map) : map[j].key = name
               THEN [j \in 1..Len(map) |->
                        IF map[j].key = name THEN [key |-> name, value |-> entry]
                        ELSE map[j]]
               ELSE Append(map, [key |-> name, value |-> entry])
    IN  [bd EXCEPT ![into] = put]

\* $type_::$as_list(name, strings): FileGroup::files for file_groups,
\* Target::groups for targets
AsList(into, name, strings) ==
    IF into = "file_groups" THEN FileGroupFiles(name, strings)
    ELSE TargetGroups(name, strings)

Projected(st, bd, err) == [st |-> st, this |-> bd, err |-> err]

GroupsKey == <<"g", "r", "o", "u", "p", "s">>

FilesKey == <<"f", "i", "l", "e", "s">>

FileGroupsKey == <<"f", "i", "l", "e", "-", "g", "r", "o", "u", "p", "s">>

TargetsKey == <<"t", "a", "r", "g", "e", "t", "s">>

\* contents.get(key).and_then(Value::as_list), <<>> for None: the code does
\* nothing for None and nothing for an empty list
ListAt(contents, key) ==
    IF contains_key(contents, key) /\ is_array(get(contents, key))
    THEN get(contents, key).values
    ELSE <<>>

\* the first of groups that this.has_file_group does not know, None where
\* it knows them all
FirstUnknown(bd, groups) ==
    IF \E j \in 1..Len(groups) : ~has_file_group(bd, groups[j].value)
    THEN Some(groups[CHOOSE k \in 1..Len(groups) :
                  /\ ~has_file_group(bd, groups[k].value)
                  /\ \A m \in 1..(k - 1) : has_file_group(bd, groups[m].value)])
    ELSE None

\* the table form of an entry
TableForm(bd, into, name, contents) ==
    LET groups == ListAt(contents, GroupsKey)
        files == ListAt(contents, FilesKey)
    IN  IF ensure_all_string(groups) # NoError
        THEN Projected("err", bd, ensure_all_string(groups))
        ELSE IF FirstUnknown(bd, groups) # None
        THEN Projected("err", bd,
                       UnknownFileGroup(FirstUnknown(bd, groups)[1].value,
                                        FirstUnknown(bd, groups)[1].pos))
        ELSE IF ensure_all_string(files) # NoError
        THEN Projected("err", bd, ensure_all_string(files))
        ELSE Projected("ok",
                       Into(bd, into, name,
                            [FileGroupNew(name) EXCEPT !.groups = Strs(groups),
                                                       !.files = Strs(files)]),
                       NoError)

\* one turn of `for (name, contents) in key.iter_kvs()`
Entry(bd, into, name, contents) ==
    IF is_array(contents)
    THEN IF ensure_all_string(contents.values) # NoError
         THEN Projected("err", bd, ensure_all_string(contents.values))
         ELSE Projected("ok",
                        Into(bd, into, name, AsList(into, name, Strs(contents.values))),
                        NoError)
    ELSE IF is_table(contents)
    THEN TableForm(bd, into, name, contents)
    ELSE Projected("err", bd,
                   IncorrectType(type_str(contents), "table or array", contents.pos))

RECURSIVE Entries(_, _, _)
Entries(bd, into, kvs) ==
    IF kvs = <<>> THEN Projected("ok", bd, NoError)
    ELSE Bind(Entry(bd, into, Head(kvs).key, Head(kvs).value), LAMBDA r :
         IF r.st # "ok" THEN r ELSE Entries(r.this, into, Tail(kvs)))

\* groups_and_files!($key, $into, $type_, $as_list)
groups_and_files(bd, value, key, into) ==
    IF ~contains_key(value, key) THEN Projected("ok", bd, NoError)
    ELSE IF ~is_table(get(value, key))
    THEN Projected("err", bd,
                   IncorrectType(type_str(get(value, key)), "table", get(value, key).pos))
    ELSE Entries(bd, into, get(value, key).key_values)

(***************************************************************************)
(* The trees try_from is given: a root table with or without `file-groups` *)
(* and `targets`, whose entries name the groups g and h and the file f.    *)
(***************************************************************************)
GroupNames == {<<"g">>, <<"h">>}

StringList(names) ==
    ArrayValue([j \in 1..Len(names) |-> StringValue(names[j], Pos(2, j, j))], Pos(2, 0, 0))

TableOf(kvs) == [type |-> "table", key_values |-> kvs, pos |-> Pos(1, 0, 0)]

Contents ==
    {StringList(names) : names \in {<<>>, <<<<"g">>>>, <<<<"h">>>>, <<<<"g">>, <<"h">>>>}}
    \cup {ArrayValue(<<new_table(Pos(2, 1, 1))>>, Pos(2, 0, 0)),
          IntegerValue(1, Pos(1, 0, 0)),
          TableOf(<<>>),
          TableOf(<<[key |-> GroupsKey, value |-> StringList(<<<<"g">>>>)]>>),
          TableOf(<<[key |-> GroupsKey, value |-> StringList(<<<<"h">>>>)],
                    [key |-> FilesKey, value |-> StringList(<<<<"f">>>>)]>>),
          TableOf(<<[key |-> FilesKey, value |-> StringList(<<<<"f">>>>)]>>),
          TableOf(<<[key |-> GroupsKey, value |-> IntegerValue(1, Pos(2, 0, 0))]>>)}

\* the tables `file-groups` can be: no entry, g, h, or g and then h
FileGroupTables ==
    {TableOf(<<>>)}
    \cup {TableOf(<<[key |-> n, value |-> c]>>) : n \in GroupNames, c \in Contents}
    \cup {TableOf(<<[key |-> <<"g">>, value |-> c], [key |-> <<"h">>, value |-> d]>>) :
             c \in Contents, d \in Contents}

\* the tables `targets` can be: no entry, or the target t
TargetTables ==
    {TableOf(<<>>)} \cup {TableOf(<<[key |-> <<"t">>, value |-> c]>>) : c \in Contents}

Roots ==
    {TableOf(fg \o tg) :
        fg \in {<<>>, <<[key |-> FileGroupsKey, value |-> IntegerValue(1, Pos(1, 0, 0))]>>}
               \cup {<<[key |-> FileGroupsKey, value |-> t]>> : t \in FileGroupTables},
        tg \in {<<>>, <<[key |-> TargetsKey, value |-> IntegerValue(1, Pos(1, 0, 0))]>>}
               \cup {<<[key |-> TargetsKey, value |-> t]>> : t \in TargetTables}}

InitProject ==
    /\ top_level \in Roots
    /\ this = NewBlackDwarf
    /\ pc = "file-groups"
    /\ result = NoResult
    /\ doc = <<>>
    /\ tokens = <<>>
    /\ scanner = NewScanner
    /\ current = <<>>
    /\ table = None
    /\ kv = [path |-> <<>>, value |-> None]
    /\ header = [kind |-> "none", path |-> <<>>]
    /\ scanned = NoResult
    /\ stack = <<>>
    /\ project = <<>>
    /\ args = <<>>
    /\ target_names = <<>>
    /\ built = {}
    /\ targets = <<>>

parsing == <<doc, tokens, scanner, current, table, kv, header, scanned, stack>>

building == <<project, args, target_names, built, targets>>

\* groups_and_files!("file-groups", file_groups, FileGroup, files);
FileGroups ==
    /\ pc = "file-groups"
    /\ \E r \in {groups_and_files(this, top_level, FileGroupsKey, "file_groups")} :
          IF r.st = "ok"
          THEN this' = r.this /\ pc' = "targets" /\ UNCHANGED result
          ELSE /\ result' = [kind |-> "Err", err |-> r.err]
               /\ pc' = "done"
               /\ UNCHANGED this
    /\ UNCHANGED <<top_level, parsing, building>>

\* groups_and_files!("targets", targets, Target, groups);
Targets ==
    /\ pc = "targets"
    /\ \E r \in {groups_and_files(this, top_level, TargetsKey, "targets")} :
          IF r.st = "ok"
          THEN this' = r.this /\ pc' = "return" /\ UNCHANGED result
          ELSE /\ result' = [kind |-> "Err", err |-> r.err]
               /\ pc' = "done"
               /\ UNCHANGED this
    /\ UNCHANGED <<top_level, parsing, building>>

\* Ok(this)
TryFromReturns ==
    /\ pc = "return"
    /\ result' = [kind |-> "Ok", err |-> NoError, value |-> this]
    /\ pc' = "done"
    /\ UNCHANGED <<top_level, this, parsing, building>>

NextProject == FileGroups \/ Targets \/ TryFromReturns

SpecProject == InitProject /\ [][NextProject]_vars

\* the FileGroups and the Targets of a BlackDwarf
EntriesOf(bd) ==
    {bd.file_groups[j].value : j \in 1..Len(bd.file_groups)}
    \cup {bd.targets[j].value : j \in 1..Len(bd.targets)}

(***************************************************************************)
(* C24: when try_from returns Ok, every name in the groups of every        *)
(* FileGroup and of every Target of the BlackDwarf is a key of its         *)
(* file_groups: an entry, in table form or in list form, that names a      *)
(* file group not declared before it makes try_from return                 *)
(* UnknownFileGroup.                                                       *)
(***************************************************************************)
C24_GroupsAreDeclared ==
    (pc = "done" /\ result.kind = "Ok") =>
        \A e \in EntriesOf(result.value) :
            \A j \in 1..Len(e.groups) : has_file_group(result.value, e.groups[j])

\* the k-th token of the document
Tok(k) == tokens[k].tok

\* the DateTime of the date of token d and the time and offset of token t
Stitched(d, t) ==
    DatetimeValue([date |-> Some(d.type_.date), time |-> Some(t.type_.time),
                   offset |-> t.type_.offset], d.pos)

\* the document starts `key = v t`, v one token and t a Time token
ValueThenTime ==
    /\ Len(tokens) >= 4
    /\ Tok(1).type_ = Ident /\ Tok(2).type_ = Equals
    /\ Tok(3).type_.tag \notin {"LeftBracket", "LeftBrace", "Error"}
    /\ Tok(4).type_.tag = "Time"

\* the document is `key = [ d t ]`, d a Date token and t a Time token
ArrayOfDateThenTime ==
    /\ Len(tokens) = 7
    /\ Tok(1).type_ = Ident /\ Tok(2).type_ = Equals /\ Tok(3).type_ = LeftBracket
    /\ Tok(4).type_.tag = "Date" /\ Tok(5).type_.tag = "Time"
    /\ Tok(6).type_ = RightBracket /\ Tok(7).type_ = Eof

(***************************************************************************)
(* C25: a date alone followed by a Time token is made one DateTime of the  *)
(* date, the time and the time's offset, and the Time token is consumed,   *)
(* where the date is the value of a key/value pair and where it is an      *)
(* element of an array; after a value that is not a date alone the Time    *)
(* token is left to be read.                                               *)
(***************************************************************************)
C25_DateTimeStitch ==
    /\ (ValueThenTime /\ kv.value # None /\ kv.path = <<Tok(1)>>) =>
           IF Tok(3).type_.tag = "Date"
           THEN kv.value = Some(Stitched(Tok(3), Tok(4))) /\ scanner.current # Some(Tok(4))
           ELSE kv.value[1].pos = Tok(3).pos /\ scanner.current = Some(Tok(4))
    /\ (ArrayOfDateThenTime /\ result.kind # "None") =>
           /\ result.kind = "Ok"
           /\ get(top_level, Tok(1).lexeme).values = <<Stitched(Tok(4), Tok(5))>>

\* the steps of parse after its first, and scan
AfterBegin ==
    \/ ParseReturns \/ TopKeyValue \/ TableHeaderStep \/ TableBodyKeyValue \/ TableBodyEnd
    \/ ArrayHeaderStep \/ ArrayBodyKeyValue \/ ArrayBodyEnd \/ Unexpected \/ Scan

\* The program runs on while it has not returned: Spec with weak fairness of
\* its steps.  For ParseBegins weak fairness is written out, its ENABLED being
\* pc = "start".
FairSpec ==
    Spec /\ WF_vars(AfterBegin) /\ ([]<>(pc # "start") \/ []<><<ParseBegins>>_vars)

\* how many tokens the calls of next_token have taken from the scanner sc: a
\* token that is peeked is scanned, not taken
Taking(sc) ==
    Cardinality({k \in 1..Len(tokens) : Tok(k).type_ # Eof /\ tokens[k].sc.i <= sc.i})
    - (IF sc.current # None /\ sc.current[1].type_ # Eof THEN 1 ELSE 0)

\* every call of Scanner::next returns Eof or leaves the scanner further on
EveryCallConsumes ==
    \A k \in 1..Len(tokens) :
        Tok(k).type_ = Eof \/ tokens[k].sc.i > (IF k = 1 THEN 0 ELSE tokens[k - 1].sc.i)

\* a loop of parse, parse_multiline_table or parse_multiline_array_element
\* ends: its condition is false
LoopEnds ==
    \/ pc \in {"table_body", "array_body"} /\ pc' = "top" /\ result' = result
    \/ pc = "top" /\ pc' = "done" /\ result'.kind = "Ok"

\* a turn of one of these loops
LoopTurn == pc \in {"top", "table_body", "array_body"} /\ pc' # "start" /\ ~LoopEnds

RECURSIVE Extends(_, _)
Extends(old, new) ==
    /\ new.type = old.type
    /\ new.pos = old.pos
    /\ IF is_table(old)
       THEN /\ Len(new.key_values) >= Len(old.key_values)
            /\ \A j \in 1..Len(old.key_values) :
                  /\ new.key_values[j].key = old.key_values[j].key
                  /\ Extends(old.key_values[j].value, new.key_values[j].value)
       ELSE IF is_array(old)
       THEN /\ Len(new.values) >= Len(old.values)
            /\ \A j \in 1..Len(old.values) : Extends(old.values[j], new.values[j])
       ELSE new = old

\* the step resolves a header: parse_multiline_table or
\* parse_multiline_array_element walks its path, or the latter appends its
\* table
HeaderResolved ==
    \/ pc = "top" /\ Peeked(scanner).type_ \in {LeftBracket, DoubleLeftBracket}
    \/ pc = "array_body" /\ pc' = "top"

(***************************************************************************)
(* C27: resolving a [path] or [[path]] header removes and replaces         *)
(* nothing: the tree after it holds every key, element and value the tree  *)
(* before it held, in place; a [[path]] header appends exactly one element *)
(* to its Array.                                                           *)
(***************************************************************************)
C27_HeadersOnlyAdd ==
    [][HeaderResolved =>
          /\ Extends(top_level, top_level')
          /\ (pc = "array_body" /\ pc' = "top") =>
                 GetAt(top_level', current).values
                     = Append(GetAt(top_level, current).values, table[1])]_vars

\* a [a] header has come again, and what was assigned under the first [a]
\* is still there
C27_Witness ==
    /\ pc = "table_body"
    /\ Len(doc) >= 12
    /\ SubSeq(doc, 1, 4) = <<"[", "a", "]", "\n">>
    /\ SubSeq(doc, Len(doc) - 3, Len(doc)) = <<"[", "a", "]", "\n">>
    /\ header.kind = "table"
    /\ Len(tokens) >= 10
    /\ Taking(scanner) = Len(tokens) - 1
    /\ contains_key(top_level, <<"a">>)
    /\ is_table(get(top_level, <<"a">>))
    /\ get(top_level, <<"a">>).key_values # <<>>

(***************************************************************************)
(* C28: the recursion limit counts the levels of containers.  A document   *)
(* whose value is at most 64 inline tables, or at most 64 arrays, one      *)
(* inside the other, is not rejected with "recursion limit exceeded".      *)
(***************************************************************************)
C28_LimitCountsContainers ==
    (pc = "done" /\ doc \in {TableNest(n) : n \in 0..RecursionLimit}
                          \cup {ArrayNest(n) : n \in 0..RecursionLimit})
        => ~(result.kind = "Err" /\ result.err.why = <<"recursion limit exceeded">>)

(***************************************************************************)
(* The build order (project.rs, main.rs).  Project::target is an IndexMap  *)
(* from a target's name to the Target, of which the order reads `needs`.   *)
(* UnresolvedProject::resolve has made sure every need is a key of it.     *)
(***************************************************************************)
TargetNames == {"x", "y", "z"}

\* what `needs` of a target can be: up to two names, no name twice
NeedsLists ==
    {<<>>} \cup {<<n>> : n \in TargetNames}
    \cup ({<<n, m>> : n \in TargetNames, m \in TargetNames}
          \ {<<n, n>> : n \in TargetNames})

\* the projects: the targets x, y and z, each with its needs
Projects ==
    {<<[key |-> "x", value |-> [name |-> "x", needs |-> nx]],
       [key |-> "y", value |-> [name |-> "y", needs |-> ny]],
       [key |-> "z", value |-> [name |-> "z", needs |-> nz]]>> :
        nx \in NeedsLists, ny \in NeedsLists, nz \in NeedsLists}

\* args.targets: nothing, one name (w is no target of the project), or two
ArgTargets ==
    {<<>>} \cup {<<n>> : n \in TargetNames \cup {"w"}}
    \cup ({<<n, m>> : n \in TargetNames, m \in TargetNames}
          \ {<<n, n>> : n \in TargetNames})

NoSuchBuildTarget(name) == [error |-> "NoSuchBuildTarget", name |-> name]

\* self.target.get(name)
TargetOf(name) ==
    IF \E j \in 1..Len(project) : project[j].key = name
    THEN Some(project[CHOOSE j \in 1..Len(project) : project[j].key = name].value)
    ELSE None

Ordered(st, list, seen, err) == [st |-> st, targets |-> list, built |-> seen, err |-> err]

\* the loop `for needs in target.needs.iter()` from the i-th need on
RECURSIVE NeedsLoop(_, _, _, _)
NeedsLoop(needs, i, list, seen) ==
    IF i > Len(needs) THEN Ordered("ok", list, seen, <<>>)
    ELSE IF needs[i] \in seen THEN NeedsLoop(needs, i + 1, list, seen)
    ELSE IF TargetOf(needs[i]) = None
    THEN Ordered("err", list, seen \cup {needs[i]}, NoSuchBuildTarget(needs[i]))
    ELSE NeedsLoop(needs, i + 1,
                   Append(list, [name |-> needs[i], target |-> TargetOf(needs[i])[1]]),
                   seen \cup {needs[i]})

unique_targets_in_order_from(target_name, seen) ==
    IF TargetOf(target_name) = None
    THEN Ordered("err", <<>>, seen, NoSuchBuildTarget(target_name))
    ELSE Bind(NeedsLoop(TargetOf(target_name)[1].needs, 1, <<>>, seen), LAMBDA r :
         IF r.st # "ok" \/ target_name \in r.built THEN r
         ELSE Ordered("ok",
                      Append(r.targets,
                             [name |-> target_name, target |-> TargetOf(target_name)[1]]),
                      r.built \cup {target_name}, <<>>))

InitBuild ==
    /\ project \in Projects
    /\ args \in ArgTargets
    /\ pc = "run"
    /\ target_names = <<>>
    /\ built = {}
    /\ targets = <<>>
    /\ result = NoResult
    /\ this = <<>>
    /\ top_level = None
    /\ doc = <<>>
    /\ tokens = <<>>
    /\ scanner = NewScanner
    /\ current = <<>>
    /\ table = None
    /\ kv = [path |-> <<>>, value |-> None]
    /\ header = [kind |-> "none", path |-> <<>>]
    /\ scanned = NoResult
    /\ stack = <<>>

\* run: args.targets is empty, project.targets_in_order()
TargetsInOrder ==
    /\ pc = "run"
    /\ args = <<>>
    /\ target_names' = [j \in 1..Len(project) |-> project[j].key]
    /\ built' = {}
    /\ targets' = <<>>
    /\ pc' = "order"
    /\ UNCHANGED <<project, args, result, this, top_level, parsing>>

\* run: project.targets_in_order_from(args.targets)
TargetsInOrderFrom ==
    /\ pc = "run"
    /\ args # <<>>
    /\ target_names' = args
    /\ built' = {}
    /\ targets' = <<>>
    /\ pc' = "order"
    /\ UNCHANGED <<project, args, result, this, top_level, parsing>>

\* a turn of `for target_name in target_names`
OrderTurn ==
    /\ pc = "order"
    /\ target_names # <<>>
    /\ \E r \in {unique_targets_in_order_from(Head(target_names), built)} :
          IF r.st = "ok"
          THEN /\ targets' = targets \o r.targets
               /\ built' = r.built
               /\ target_names' = Tail(target_names)
               /\ UNCHANGED <<pc, result>>
          ELSE /\ result' = [kind |-> "Err", err |-> r.err]
               /\ pc' = "done"
               /\ UNCHANGED <<targets, built, target_names>>
    /\ UNCHANGED <<project, args, this, top_level, parsing>>

\* Ok(targets)
OrderReturns ==
    /\ pc = "order"
    /\ target_names = <<>>
    /\ result' = [kind |-> "Ok", err |-> NoError, value |-> targets]
    /\ pc' = "done"
    /\ UNCHANGED <<project, args, target_names, built, targets, this, top_level, parsing>>

NextBuild == TargetsInOrder \/ TargetsInOrderFrom \/ OrderTurn \/ OrderReturns

SpecBuild == InitBuild /\ [][NextBuild]_vars

\* the names a target of the project needs
NeedsOf(name) == {TargetOf(name)[1].needs[j] : j \in 1..Len(TargetOf(name)[1].needs)}

\* what the targets of names need, they included, in up to k steps
RECURSIVE Needed(_, _)
Needed(names, k) ==
    IF k = 0 THEN names
    ELSE Needed(names \cup UNION {NeedsOf(n) : n \in names}, k - 1)

\* all that the target needs, directly or through other targets
AllNeeds(name) == Needed(NeedsOf(name), Cardinality(TargetNames))

\* no target needs itself, directly or through other targets
NoCycle == \A n \in TargetNames : n \notin AllNeeds(n)

(***************************************************************************)
(* C29: the build order.  In the list targets_in_order and                 *)
(* targets_in_order_from return, for a project whose needs have no cycle,  *)
(* no target comes twice, and every target comes after all the targets it  *)
(* needs, directly or through other targets.                               *)
(***************************************************************************)
C29_BuildOrder ==
    (pc = "done" /\ result.kind = "Ok" /\ project # <<>> /\ NoCycle) =>
        /\ \A i, j \in 1..Len(result.value) :
               result.value[i].name = result.value[j].name => i = j
        /\ \A i \in 1..Len(result.value) :
               \A n \in AllNeeds(result.value[i].name) :
                   \E j \in 1..(i - 1) : result.value[j].name = n

\* the text is a date, yyyy-mm-dd, with T or t right after it
DateThenT(lex) ==
    /\ Len(lex) >= 11
    /\ \A j \in {1, 2, 3, 4, 6, 7, 9, 10} : is_digit(lex[j])
    /\ lex[5] = "-" /\ lex[8] = "-"
    /\ lex[11] \in {"T", "t"}

(***************************************************************************)
(* C30: a date followed by T or t is scanned to a Datetime token or to an  *)
(* Error token, never to a Date token without the time; and parse does not *)
(* return Ok with a date alone as the value of `k=<date>T..`.              *)
(***************************************************************************)
C30_TimePartNotDropped ==
    (/\ Len(doc) >= 13
     /\ doc[2] = "="
     /\ DateThenT(SubSeq(doc, 3, Len(doc)))
     /\ Len(tokens) >= 3)
        => /\ Tok(3).type_.tag \in {"Datetime", "Error"}
           /\ (result.kind = "Ok" /\ contains_key(top_level, <<doc[1]>>))
                  => ~is_just_date(get(top_level, <<doc[1]>>))

====
